---- MODULE Spec2Model ----
(***************************************************************************)
(* Attendance engine of the shift application (attendanceService.ts over   *)
(* firestoreService.ts): the clock-in / break / clock-out state machine of *)
(* one attendance document per employee and calendar date.                 *)
(*                                                                         *)
(* Time is counted in whole minutes since local midnight of day 0.  A Date *)
(* is such a minute count; a stored Timestamp is the pair (seconds,        *)
(* nanoseconds) the document store keeps.  totalWorkHours is kept in       *)
(* hundredths of an hour (7.67 h is 767).  An optional value (a field that *)
(* may be undefined, a query that may return null) is the empty sequence   *)
(* or a one-element sequence.  The audit fields createdAt / updatedAt that *)
(* the store adapter adds to every write are not part of the model.  The   *)
(* store is taken to accept every write the handlers make, a break without *)
(* an end time included (the db object is set up in firebase.ts).          *)
(***************************************************************************)
EXTENDS Integers, Sequences, FiniteSets, TLC

VARIABLES attendances, now, last, pc, call, snap,
          input, output,
          shifts, batch, issued,
          shiftPreferences,
          stores

\* The 'attendances' collection, the wall clock, the result of the latest
\* call and the calls in progress.
attendanceVars == <<attendances, now, last, pc, call, snap>>

\* The arguments and the returned value of a call of a pure function.
functionVars == <<input, output>>

\* The 'shifts' collection, the write batch being filled and the number of
\* document ids generated so far.
shiftVars == <<shifts, batch, issued>>

\* The 'shiftPreferences' collection.
preferenceVars == <<shiftPreferences>>

\* The 'stores' collection.
storeVars == <<stores>>

vars == <<attendanceVars, functionVars, shiftVars, preferenceVars, storeVars>>

(* ------------------------------ bounds --------------------------------- *)

\* Largest number of documents the 'attendances' collection holds.
MaxRecords == 2

\* Largest number of break entries over all documents of the collection.
MaxBreaks == 2

Users == {"u1", "u2"}

Stores == {"s1"}

Procs == {"p1", "p2"}

\* The instants at which the wall clock is read: day 0 at 09:20 and 16:30,
\* day 1 at 08:55.
TimePoints == <<560, 990, 1975>>

AttendanceIds == 1 .. MaxRecords

\* Longest list of shifts given to createShiftsInBatch.
MaxBatch == 2

\* Largest number of document ids generated for the 'shifts' collection.
MaxIssued == 4

\* Largest number of documents in the 'shiftPreferences' collection.
MaxPreferences == 3

\* Longest list of unavailable dates of a shift preference.
MaxDates == 3

\* Longest list of assignments in the generator's result.
MaxAssignments == 2

\* Largest number of documents in the 'events' collection.
MaxEvents == 2

(* ----------------------------- optionals ------------------------------- *)

Undefined == <<>>

Some(v) == <<v>>

IsDefined(o) == o # <<>>

Value(o) == o[1]

(* --------------------------- Date arithmetic --------------------------- *)

MinutesPerDay == 24 * 60

getHours(d) == (d % MinutesPerDay) \div 60

getMinutes(d) == d % 60

\* new Date(d.getFullYear(), d.getMonth(), d.getDate()): midnight of d's day.
startOfDay(d) == (d \div MinutesPerDay) * MinutesPerDay

\* new Date(y, m, d, 23, 59, 59), to the minute.
endOfDay(d) == startOfDay(d) + 23 * 60 + 59

(* ------------------------- firestoreService.ts ------------------------- *)

convertDateToTimestamp(date) == [seconds |-> date * 60, nanoseconds |-> 0]

convertTimestampToDate(timestamp) ==
    (timestamp.seconds * 1000 + timestamp.nanoseconds \div 1000000) \div 60000

\* Order of two stored Timestamps, as the store's range filters compare them.
TimestampLeq(a, b) ==
    \/ a.seconds < b.seconds
    \/ a.seconds = b.seconds /\ a.nanoseconds <= b.nanoseconds

\* getDocument: the document with its id, or null.
getDocument(documentId) ==
    IF documentId \in DOMAIN attendances
    THEN Some([id |-> documentId] @@ attendances[documentId])
    ELSE Undefined

\* An insert under a unique index on (userId, date): a second document of
\* the same employee and date is not stored.
setDocument_UniqueIndex(data) ==
    IF \E i \in DOMAIN attendances :
           attendances[i].userId = data.userId /\ attendances[i].date = data.date
    THEN attendances
    ELSE Append(attendances, data)

\* setDocument without a document id (addDoc): the collection after the
\* insert; the generated id is the new length.
setDocument(data) == Append(attendances, data)

\* updateDocument (updateDoc): the fields of data replace the stored ones,
\* every other field of the document is kept.
updateDocument(documentId, data) ==
    [attendances EXCEPT ![documentId] =
        [f \in DOMAIN @ |-> IF f \in DOMAIN data THEN data[f] ELSE @[f]]]

(* ------------------------ attendanceService.ts ------------------------- *)

convertBreakTime(breakTime) ==
    [startTime |-> convertTimestampToDate(breakTime.startTime),
     endTime   |-> IF IsDefined(breakTime.endTime)
                   THEN Some(convertTimestampToDate(Value(breakTime.endTime)))
                   ELSE Undefined]

convertTimestamps(attendance) ==
    [attendance EXCEPT
        !.date = convertTimestampToDate(@),
        !.clockInTime = convertTimestampToDate(@),
        !.clockOutTime = IF IsDefined(@)
                         THEN Some(convertTimestampToDate(Value(@)))
                         ELSE Undefined,
        !.breakTimes = [i \in DOMAIN @ |-> convertBreakTime(@[i])]]

getAttendanceById(attendanceId) ==
    LET attendanceData == getDocument(attendanceId)
    IN  IF IsDefined(attendanceData)
        THEN Some(convertTimestamps(Value(attendanceData)))
        ELSE Undefined

\* The query without its userId filter.
queryUserDate_NoUserFilter(userId, date) ==
    LET startTimestamp == convertDateToTimestamp(startOfDay(date))
        endTimestamp   == convertDateToTimestamp(endOfDay(date))
    IN  SelectSeq([i \in DOMAIN attendances |-> i],
            LAMBDA i : /\ TimestampLeq(startTimestamp, attendances[i].date)
                       /\ TimestampLeq(attendances[i].date, endTimestamp))

\* The ids the query of getUserAttendanceForDate selects, in document order.
queryUserDate(userId, date) ==
    LET startTimestamp == convertDateToTimestamp(startOfDay(date))
        endTimestamp   == convertDateToTimestamp(endOfDay(date))
    IN  SelectSeq([i \in DOMAIN attendances |-> i],
            LAMBDA i : /\ attendances[i].userId = userId
                       /\ TimestampLeq(startTimestamp, attendances[i].date)
                       /\ TimestampLeq(attendances[i].date, endTimestamp))

getUserAttendanceForDate(userId, date) ==
    LET found == queryUserDate(userId, date)
    IN  IF Len(found) = 0
        THEN Undefined
        ELSE Some(convertTimestamps([id |-> found[1]] @@ attendances[found[1]]))

\* The breakTimes array as every update writes it.
breakTimesToSave(breakTimes) ==
    [i \in DOMAIN breakTimes |->
        [startTime |-> convertDateToTimestamp(breakTimes[i].startTime),
         endTime   |-> IF IsDefined(breakTimes[i].endTime)
                       THEN Some(convertDateToTimestamp(Value(breakTimes[i].endTime)))
                       ELSE Undefined]]

\* Math.round(x) for the rational x = num / den, den > 0: halves go up.
MathRound(num, den) == (2 * num + den) \div (2 * den)

\* The loop leaving at the first break without an end time.
RECURSIVE sumBreakTime_StopAtIncomplete(_, _)
sumBreakTime_StopAtIncomplete(breakTimes, n) ==
    IF n = 0
    THEN 0
    ELSE IF \E k \in 1 .. n : ~IsDefined(breakTimes[k].endTime)
    THEN sumBreakTime_StopAtIncomplete(breakTimes, n - 1)
    ELSE sumBreakTime_StopAtIncomplete(breakTimes, n - 1)
         + (Value(breakTimes[n].endTime) - breakTimes[n].startTime)

\* The loop adding start - end for every complete break.
RECURSIVE sumBreakTime_StartMinusEnd(_, _)
sumBreakTime_StartMinusEnd(breakTimes, n) ==
    IF n = 0
    THEN 0
    ELSE sumBreakTime_StartMinusEnd(breakTimes, n - 1)
         + (IF IsDefined(breakTimes[n].endTime)
            THEN breakTimes[n].startTime - Value(breakTimes[n].endTime)
            ELSE 0)

\* The forEach loop over the first n breaks: the time of those that have a
\* start and an end.
RECURSIVE sumBreakTime(_, _)
sumBreakTime(breakTimes, n) ==
    IF n = 0
    THEN 0
    ELSE sumBreakTime(breakTimes, n - 1)
         + (IF IsDefined(breakTimes[n].endTime)
            THEN Value(breakTimes[n].endTime) - breakTimes[n].startTime
            ELSE 0)

totalBreakTime(breakTimes) == sumBreakTime(breakTimes, Len(breakTimes))

\* The sum taking a break without an end time to end when the work ends.
calculateTotalWorkHours_OpenBreaksCounted(clockInTime, clockOutTime, breakTimes) ==
    LET closed == [i \in DOMAIN breakTimes |->
                      IF IsDefined(breakTimes[i].endTime)
                      THEN breakTimes[i]
                      ELSE [breakTimes[i] EXCEPT !.endTime = Some(clockOutTime)]]
    IN  MathRound((clockOutTime - clockInTime - totalBreakTime(closed)) * 100, 60)

\* Hundredths of an hour: Math.round(ms / 3600000 * 100), the minutes being
\* ms / 60000.
calculateTotalWorkHours(clockInTime, clockOutTime, breakTimes) ==
    LET totalTime      == clockOutTime - clockInTime
        actualWorkTime == totalTime - totalBreakTime(breakTimes)
    IN  MathRound(actualWorkTime * 100, 60)

\* Index of the first break without an end time, 0 when there is none
\* (Array.find / findIndex with breakTime => !breakTime.endTime).
activeBreakIndex(breakTimes) ==
    LET open == {i \in DOMAIN breakTimes : ~IsDefined(breakTimes[i].endTime)}
    IN  IF open = {} THEN 0 ELSE CHOOSE i \in open : \A j \in open : i <= j

(* clockIn *)

\* The late test with the quarter-hour mark itself counted as late.
clockInStatus_LateAtQuarter(clockInTime) ==
    LET isMorning         == getHours(clockInTime) < 12
        expectedStartHour == IF isMorning THEN 9 ELSE 13
    IN  IF \/ getHours(clockInTime) > expectedStartHour
           \/ getHours(clockInTime) = expectedStartHour /\ getMinutes(clockInTime) >= 15
        THEN "late"
        ELSE "normal"

clockInStatus(clockInTime) ==
    LET isMorning         == getHours(clockInTime) < 12
        expectedStartHour == IF isMorning THEN 9 ELSE 13
    IN  IF \/ getHours(clockInTime) > expectedStartHour
           \/ getHours(clockInTime) = expectedStartHour /\ getMinutes(clockInTime) > 15
        THEN "late"
        ELSE "normal"

clockInError(userId, clockInTime) ==
    IF IsDefined(getUserAttendanceForDate(userId, startOfDay(clockInTime)))
    THEN "AlreadyClockedIn"
    ELSE "ok"

attendanceToSave(userId, storeId, clockInTime) ==
    [userId         |-> userId,
     storeId        |-> storeId,
     date           |-> convertDateToTimestamp(startOfDay(clockInTime)),
     clockInTime    |-> convertDateToTimestamp(clockInTime),
     clockOutTime   |-> Undefined,
     breakTimes     |-> <<>>,
     totalWorkHours |-> Undefined,
     status         |-> clockInStatus(clockInTime)]

(* clockOut *)

\* clockOut without its check for a recorded clock-out.
clockOutError_NoClockedOutCheck(attendance) ==
    IF ~IsDefined(attendance) THEN "NotFound" ELSE "ok"

clockOutError(attendance) ==
    IF ~IsDefined(attendance) THEN "NotFound"
    ELSE IF IsDefined(Value(attendance).clockOutTime) THEN "AlreadyClockedOut"
    ELSE "ok"

\* The end time set on a copy of the open break, the list left as it was.
closeActiveBreak_CopyNotUpdated(breakTimes, clockOutTime) == breakTimes

\* The copied break list with the first open break ended at clockOutTime.
closeActiveBreak(breakTimes, clockOutTime) ==
    LET activeBreak == activeBreakIndex(breakTimes)
    IN  IF activeBreak # 0
        THEN [breakTimes EXCEPT ![activeBreak].endTime = Some(clockOutTime)]
        ELSE breakTimes

\* The early test without the guard that keeps a late record late.
clockOutStatus_NoLatePriority(attendance, clockOutTime) ==
    LET isMorning       == getHours(attendance.clockInTime) < 12
        expectedEndHour == IF isMorning THEN 17 ELSE 21
    IN  IF \/ getHours(clockOutTime) < expectedEndHour
           \/ getHours(clockOutTime) = expectedEndHour /\ getMinutes(clockOutTime) < 45
        THEN "early"
        ELSE attendance.status

clockOutStatus(attendance, clockOutTime) ==
    LET isMorning       == getHours(attendance.clockInTime) < 12
        expectedEndHour == IF isMorning THEN 17 ELSE 21
    IN  IF /\ \/ getHours(clockOutTime) < expectedEndHour
              \/ getHours(clockOutTime) = expectedEndHour /\ getMinutes(clockOutTime) < 45
           /\ attendance.status # "late"
        THEN "early"
        ELSE attendance.status

\* clockOut storing the clock-out time without the total.
clockOutUpdate_NoTotal(attendance, clockOutTime) ==
    LET updatedBreakTimes == closeActiveBreak(attendance.breakTimes, clockOutTime)
    IN  [clockOutTime   |-> Some(convertDateToTimestamp(clockOutTime)),
         breakTimes     |-> breakTimesToSave(updatedBreakTimes),
         status         |-> clockOutStatus(attendance, clockOutTime)]

clockOutUpdate(attendance, clockOutTime) ==
    LET updatedBreakTimes == closeActiveBreak(attendance.breakTimes, clockOutTime)
    IN  [clockOutTime   |-> Some(convertDateToTimestamp(clockOutTime)),
         breakTimes     |-> breakTimesToSave(updatedBreakTimes),
         totalWorkHours |-> Some(calculateTotalWorkHours(attendance.clockInTime,
                                                         clockOutTime,
                                                         updatedBreakTimes)),
         status         |-> clockOutStatus(attendance, clockOutTime)]

(* startBreak *)

\* startBreak testing for a break in progress before the clock-out time.
startBreakError_ActiveCheckFirst(attendance) ==
    IF ~IsDefined(attendance) THEN "NotFound"
    ELSE IF activeBreakIndex(Value(attendance).breakTimes) # 0 THEN "BreakAlreadyActive"
    ELSE IF IsDefined(Value(attendance).clockOutTime) THEN "AlreadyClockedOut"
    ELSE "ok"

\* startBreak without its check for a recorded clock-out.
startBreakError_NoClockedOutCheck(attendance) ==
    IF ~IsDefined(attendance) THEN "NotFound"
    ELSE IF activeBreakIndex(Value(attendance).breakTimes) # 0 THEN "BreakAlreadyActive"
    ELSE "ok"

\* startBreak without its check for a break in progress.
startBreakError_NoActiveCheck(attendance) ==
    IF ~IsDefined(attendance) THEN "NotFound"
    ELSE IF IsDefined(Value(attendance).clockOutTime) THEN "AlreadyClockedOut"
    ELSE "ok"

startBreakError(attendance) ==
    IF ~IsDefined(attendance) THEN "NotFound"
    ELSE IF IsDefined(Value(attendance).clockOutTime) THEN "AlreadyClockedOut"
    ELSE IF activeBreakIndex(Value(attendance).breakTimes) # 0 THEN "BreakAlreadyActive"
    ELSE "ok"

\* startBreak writing back, with the new break, the clock-out time and the
\* total of the record it read.
startBreakUpdate_WritesReadTotals(attendance, startTime) ==
    LET updatedBreakTimes ==
            Append(attendance.breakTimes,
                   [startTime |-> startTime, endTime |-> Undefined])
    IN  [breakTimes     |-> breakTimesToSave(updatedBreakTimes),
         clockOutTime   |-> IF IsDefined(attendance.clockOutTime)
                            THEN Some(convertDateToTimestamp(Value(attendance.clockOutTime)))
                            ELSE Undefined,
         totalWorkHours |-> attendance.totalWorkHours]

\* startBreak putting the new break before the existing ones.
startBreakUpdate_Prepends(attendance, startTime) ==
    LET updatedBreakTimes ==
            <<[startTime |-> startTime, endTime |-> Undefined]>> \o attendance.breakTimes
    IN  [breakTimes |-> breakTimesToSave(updatedBreakTimes)]

startBreakUpdate(attendance, startTime) ==
    LET updatedBreakTimes ==
            Append(attendance.breakTimes,
                   [startTime |-> startTime, endTime |-> Undefined])
    IN  [breakTimes |-> breakTimesToSave(updatedBreakTimes)]

(* endBreak *)

\* endBreak taking a missing record for a record without breaks.
endBreakError_MissingAsEmpty(attendance) ==
    IF ~IsDefined(attendance) THEN "NoActiveBreak"
    ELSE IF activeBreakIndex(Value(attendance).breakTimes) = 0 THEN "NoActiveBreak"
    ELSE "ok"

\* endBreak testing for an empty break list instead of an open break.
endBreakError_EmptyListOnly(attendance) ==
    IF ~IsDefined(attendance) THEN "NotFound"
    ELSE IF Value(attendance).breakTimes = <<>> THEN "NoActiveBreak"
    ELSE "ok"

endBreakError(attendance) ==
    IF ~IsDefined(attendance) THEN "NotFound"
    ELSE IF activeBreakIndex(Value(attendance).breakTimes) = 0 THEN "NoActiveBreak"
    ELSE "ok"

endBreakUpdate(attendance, endTime) ==
    LET index == activeBreakIndex(attendance.breakTimes)
        updatedBreakTimes ==
            [attendance.breakTimes EXCEPT ![index].endTime = Some(endTime)]
    IN  [breakTimes |-> breakTimesToSave(updatedBreakTimes)]

RECURSIVE CountBreaksUpTo(_, _)
CountBreaksUpTo(docs, n) ==
    IF n = 0 THEN 0 ELSE CountBreaksUpTo(docs, n - 1) + Len(docs[n].breakTimes)

CountBreaks(docs) == CountBreaksUpTo(docs, Len(docs))

(* ------------------------------- state --------------------------------- *)

\* The wall clock, new Date().
Now == TimePoints[now]

NoCall == [op |-> "none", userId |-> "", storeId |-> "", id |-> 0, time |-> 0]

NoResult == [op |-> "none", userId |-> "", id |-> 0, result |-> "none"]

Result(op, userId, id, result) ==
    [op |-> op, userId |-> userId, id |-> id, result |-> result]

\* No pure function under evaluation.
InitFunctions ==
    /\ input = Undefined
    /\ output = Undefined

\* An empty 'shifts' collection, no batch, no id generated yet.
InitShifts ==
    /\ shifts = <<>>
    /\ batch = <<>>
    /\ issued = 0

\* An empty 'shiftPreferences' collection.
InitPreferences == shiftPreferences = <<>>

\* An empty 'stores' collection.
InitStores == stores = <<>>

\* An empty 'attendances' collection at the first reading of the clock, no
\* call made yet.
InitAttendances ==
    /\ attendances = <<>>
    /\ now = 1
    /\ last = NoResult
    /\ pc = [p \in Procs |-> "idle"]
    /\ call = [p \in Procs |-> NoCall]
    /\ snap = [p \in Procs |-> Undefined]

Init ==
    /\ InitAttendances
    /\ InitFunctions
    /\ InitShifts
    /\ InitPreferences
    /\ InitStores

Tick ==
    /\ now < Len(TimePoints)
    /\ now' = now + 1
    /\ UNCHANGED <<attendances, last, pc, call, snap>>
    /\ UNCHANGED <<functionVars, shiftVars, preferenceVars, storeVars>>

(* -------------------- the handlers, run one at a time ------------------ *)

\* The handlers with their time argument given; its default is new Date().
clockInAt(userId, storeId, clockInTime) ==
    LET error == clockInError(userId, clockInTime)
    IN  /\ IF error # "ok"
           THEN /\ last' = Result("clockIn", userId, 0, error)
                /\ UNCHANGED attendances
           ELSE /\ Len(attendances) < MaxRecords
                /\ attendances' = setDocument(attendanceToSave(userId, storeId, clockInTime))
                /\ last' = Result("clockIn", userId, Len(attendances) + 1, "ok")
        /\ UNCHANGED <<now, pc, call, snap>>
        /\ UNCHANGED <<functionVars, shiftVars, preferenceVars, storeVars>>

clockOutAt(attendanceId, clockOutTime) ==
    LET attendance == getAttendanceById(attendanceId)
        error == clockOutError(attendance)
    IN  /\ last' = Result("clockOut", "", attendanceId, error)
        /\ IF error # "ok"
           THEN UNCHANGED attendances
           ELSE attendances' =
                    updateDocument(attendanceId,
                                   clockOutUpdate(Value(attendance), clockOutTime))
        /\ UNCHANGED <<now, pc, call, snap>>
        /\ UNCHANGED <<functionVars, shiftVars, preferenceVars, storeVars>>

startBreakAt(attendanceId, startTime) ==
    LET attendance == getAttendanceById(attendanceId)
        error == startBreakError(attendance)
    IN  /\ last' = Result("startBreak", "", attendanceId, error)
        /\ IF error # "ok"
           THEN UNCHANGED attendances
           ELSE /\ CountBreaks(attendances) < MaxBreaks
                /\ attendances' =
                       updateDocument(attendanceId,
                                      startBreakUpdate(Value(attendance), startTime))
        /\ UNCHANGED <<now, pc, call, snap>>
        /\ UNCHANGED <<functionVars, shiftVars, preferenceVars, storeVars>>

endBreakAt(attendanceId, endTime) ==
    LET attendance == getAttendanceById(attendanceId)
        error == endBreakError(attendance)
    IN  /\ last' = Result("endBreak", "", attendanceId, error)
        /\ IF error # "ok"
           THEN UNCHANGED attendances
           ELSE attendances' =
                    updateDocument(attendanceId,
                                   endBreakUpdate(Value(attendance), endTime))
        /\ UNCHANGED <<now, pc, call, snap>>
        /\ UNCHANGED <<functionVars, shiftVars, preferenceVars, storeVars>>

\* The handlers called without a time argument: the time is the clock's.
clockIn(userId, storeId) == clockInAt(userId, storeId, Now)

clockOut(attendanceId) == clockOutAt(attendanceId, Now)

startBreak(attendanceId) == startBreakAt(attendanceId, Now)

endBreak(attendanceId) == endBreakAt(attendanceId, Now)

Next ==
    \/ Tick
    \/ \E userId \in Users, storeId \in Stores : clockIn(userId, storeId)
    \/ \E attendanceId \in AttendanceIds : clockOut(attendanceId)
    \/ \E attendanceId \in AttendanceIds : startBreak(attendanceId)
    \/ \E attendanceId \in AttendanceIds : endBreak(attendanceId)

Spec == Init /\ [][Next]_vars

(* --------- the handlers as two steps: the read, then the write --------- *)
(* Each handler awaits its read (getDoc / getDocs), runs its checks and    *)
(* builds its data without yielding, then awaits its write (addDoc /       *)
(* updateDoc).  Other calls can run between the read and the write; the    *)
(* time argument is taken when the call is made.  The calls of one burst   *)
(* all read the same minute of the clock.                                  *)

Pending(op) == {q \in Procs : pc[q] = "write" /\ call[q].op = op}

Fails(op, userId, attendanceId, error) ==
    /\ last' = Result(op, userId, attendanceId, error)
    /\ UNCHANGED <<attendances, now, pc, call, snap>>
    /\ UNCHANGED <<functionVars, shiftVars, preferenceVars, storeVars>>

Reads(p, op, userId, storeId, attendanceId, attendance) ==
    /\ pc' = [pc EXCEPT ![p] = "write"]
    /\ call' = [call EXCEPT ![p] = [op |-> op, userId |-> userId, storeId |-> storeId,
                                    id |-> attendanceId, time |-> Now]]
    /\ snap' = [snap EXCEPT ![p] = attendance]
    /\ UNCHANGED <<attendances, now, last>>
    /\ UNCHANGED <<functionVars, shiftVars, preferenceVars, storeVars>>

Writes(p, op, docs, attendanceId) ==
    /\ attendances' = docs
    /\ last' = Result(op, call[p].userId, attendanceId, "ok")
    /\ pc' = [pc EXCEPT ![p] = "idle"]
    /\ call' = [call EXCEPT ![p] = NoCall]
    /\ snap' = [snap EXCEPT ![p] = Undefined]
    /\ UNCHANGED now
    /\ UNCHANGED <<functionVars, shiftVars, preferenceVars, storeVars>>

clockInRead(p, userId, storeId) ==
    LET error == clockInError(userId, Now)
    IN  /\ pc[p] = "idle"
        /\ IF error # "ok"
           THEN Fails("clockIn", userId, 0, error)
           ELSE /\ Len(attendances) + Cardinality(Pending("clockIn")) < MaxRecords
                /\ Reads(p, "clockIn", userId, storeId, 0, Undefined)

clockInWrite(p) ==
    /\ pc[p] = "write"
    /\ call[p].op = "clockIn"
    /\ Writes(p, "clockIn",
              setDocument(attendanceToSave(call[p].userId, call[p].storeId, call[p].time)),
              Len(attendances) + 1)

clockOutRead(p, attendanceId) ==
    LET attendance == getAttendanceById(attendanceId)
        error == clockOutError(attendance)
    IN  /\ pc[p] = "idle"
        /\ IF error # "ok"
           THEN Fails("clockOut", "", attendanceId, error)
           ELSE Reads(p, "clockOut", "", "", attendanceId, attendance)

clockOutWrite(p) ==
    /\ pc[p] = "write"
    /\ call[p].op = "clockOut"
    /\ Writes(p, "clockOut",
              updateDocument(call[p].id, clockOutUpdate(Value(snap[p]), call[p].time)),
              call[p].id)

startBreakRead(p, attendanceId) ==
    LET attendance == getAttendanceById(attendanceId)
        error == startBreakError(attendance)
    IN  /\ pc[p] = "idle"
        /\ IF error # "ok"
           THEN Fails("startBreak", "", attendanceId, error)
           ELSE /\ CountBreaks(attendances) + Cardinality(Pending("startBreak")) < MaxBreaks
                /\ Reads(p, "startBreak", "", "", attendanceId, attendance)

startBreakWrite(p) ==
    /\ pc[p] = "write"
    /\ call[p].op = "startBreak"
    /\ Writes(p, "startBreak",
              updateDocument(call[p].id, startBreakUpdate(Value(snap[p]), call[p].time)),
              call[p].id)

endBreakRead(p, attendanceId) ==
    LET attendance == getAttendanceById(attendanceId)
        error == endBreakError(attendance)
    IN  /\ pc[p] = "idle"
        /\ IF error # "ok"
           THEN Fails("endBreak", "", attendanceId, error)
           ELSE Reads(p, "endBreak", "", "", attendanceId, attendance)

endBreakWrite(p) ==
    /\ pc[p] = "write"
    /\ call[p].op = "endBreak"
    /\ Writes(p, "endBreak",
              updateDocument(call[p].id, endBreakUpdate(Value(snap[p]), call[p].time)),
              call[p].id)

NextConc ==
    \/ \E p \in Procs, userId \in Users, storeId \in Stores : clockInRead(p, userId, storeId)
    \/ \E p \in Procs : clockInWrite(p)
    \/ \E p \in Procs, attendanceId \in AttendanceIds : clockOutRead(p, attendanceId)
    \/ \E p \in Procs : clockOutWrite(p)
    \/ \E p \in Procs, attendanceId \in AttendanceIds : startBreakRead(p, attendanceId)
    \/ \E p \in Procs : startBreakWrite(p)
    \/ \E p \in Procs, attendanceId \in AttendanceIds : endBreakRead(p, attendanceId)
    \/ \E p \in Procs : endBreakWrite(p)

\* A burst of concurrent calls is made within one reading of the clock,
\* whichever reading it is.
InitConc ==
    /\ attendances = <<>>
    /\ now \in DOMAIN TimePoints
    /\ last = NoResult
    /\ pc = [p \in Procs |-> "idle"]
    /\ call = [p \in Procs |-> NoCall]
    /\ snap = [p \in Procs |-> Undefined]
    /\ InitFunctions
    /\ InitShifts
    /\ InitPreferences
    /\ InitStores

SpecConc == InitConc /\ [][NextConc]_vars

(* ------------- clockIn at every minute of one calendar day ------------- *)
(* The first clockIn into the empty collection: one employee clocks in at  *)
(* a store with an explicit clockInTime, which may be any minute of day 0. *)

DayMinutes == 0 .. (MinutesPerDay - 1)

Employee == "u1"

Store == "s1"

NextClockIn ==
    /\ attendances = <<>>
    /\ \E clockInTime \in DayMinutes : clockInAt(Employee, Store, clockInTime)

SpecClockIn == Init /\ [][NextClockIn]_vars

(* ---------------- one employee's record through one day ---------------- *)
(* The four handlers called with explicit times on the record of one       *)
(* employee, each call at a time not earlier than the latest time the      *)
(* record holds.                                                           *)

\* The times given to the calls: 08:55, 12:00, 12:30, 13:15, 17:00, 17:05,
\* 17:45, 21:00 and 21:45 of day 0.
DayTimes == {535, 720, 750, 795, 1020, 1025, 1065, 1260, 1305}

\* The id the store gives the employee's record.
Record == 1

RECURSIVE latestBreakTime(_, _)
latestBreakTime(breakTimes, n) ==
    IF n = 0
    THEN 0
    ELSE LET before == latestBreakTime(breakTimes, n - 1)
             this   == IF IsDefined(breakTimes[n].endTime)
                       THEN Value(breakTimes[n].endTime)
                       ELSE breakTimes[n].startTime
         IN  IF this > before THEN this ELSE before

\* The latest time held by the employee's record, 0 when there is no record.
LatestTime ==
    IF Record \notin DOMAIN attendances
    THEN 0
    ELSE LET a       == convertTimestamps(attendances[Record])
             inTime  == IF IsDefined(a.clockOutTime) THEN Value(a.clockOutTime) ELSE a.clockInTime
             inBreak == latestBreakTime(a.breakTimes, Len(a.breakTimes))
         IN  IF inBreak > inTime THEN inBreak ELSE inTime

NextDay ==
    \/ \E t \in DayTimes : t >= LatestTime /\ clockInAt(Employee, Store, t)
    \/ \E t \in DayTimes : t >= LatestTime /\ startBreakAt(Record, t)
    \/ \E t \in DayTimes : t >= LatestTime /\ endBreakAt(Record, t)
    \/ \E t \in DayTimes : t >= LatestTime /\ clockOutAt(Record, t)

SpecDay == Init /\ [][NextDay]_vars

(* ------------- calculateTotalWorkHours on given arguments -------------- *)
(* The exported function called on its own, and the update clockOut builds *)
(* from an attendance it has read, for every clock-in time, clock-out time *)
(* and break list over a few times of day: breaks in any order, with or    *)
(* without an end time, inside or outside the worked interval.             *)

\* 08:55, 12:00, 12:30 and 17:05 of day 0.
WorkTimes == {535, 720, 750, 1025}

BreakTimeValues ==
    [startTime : WorkTimes, endTime : {Undefined} \cup {Some(t) : t \in WorkTimes}]

BreakLists == UNION {[1 .. n -> BreakTimeValues] : n \in 0 .. MaxBreaks}

WorkHoursInputs ==
    [clockInTime : WorkTimes, clockOutTime : WorkTimes, breakTimes : BreakLists]

\* A function about to be called on arguments taken from Inputs.
InitCall(Inputs) ==
    /\ input \in {Some(i) : i \in Inputs}
    /\ output = Undefined
    /\ InitAttendances
    /\ InitShifts
    /\ InitPreferences
    /\ InitStores

InitWorkHours == InitCall(WorkHoursInputs)

Returns(op, value) ==
    /\ output' = Some([op |-> op, value |-> value])
    /\ UNCHANGED <<input, attendanceVars, shiftVars, preferenceVars, storeVars>>

\* calculateTotalWorkHours(clockInTime, clockOutTime, breakTimes).
CallCalculateTotalWorkHours ==
    /\ output = Undefined
    /\ LET i == Value(input)
       IN  Returns("calculateTotalWorkHours",
                   calculateTotalWorkHours(i.clockInTime, i.clockOutTime, i.breakTimes))

\* The body of clockOut after its checks, on an attendance read with the
\* given clock-in time and break list: the update data it writes.
CallClockOutUpdate ==
    /\ output = Undefined
    /\ LET i == Value(input)
           attendance == [clockInTime |-> i.clockInTime,
                          breakTimes  |-> i.breakTimes,
                          status      |-> clockInStatus(i.clockInTime)]
       IN  Returns("clockOut", clockOutUpdate(attendance, i.clockOutTime))

NextWorkHours == CallCalculateTotalWorkHours \/ CallClockOutUpdate

SpecWorkHours == InitWorkHours /\ [][NextWorkHours]_vars

(* ------------------- shiftService.ts: time strings --------------------- *)
(* A string is the sequence of its characters.                             *)

Digits == <<"0", "1", "2", "3", "4", "5", "6", "7", "8", "9">>

IsDigit(c) == \E d \in DOMAIN Digits : Digits[d] = c

DigitValue(c) == (CHOOSE d \in DOMAIN Digits : Digits[d] = c) - 1

\* timeStr.split(':'): the parts between the colons, in order.
RECURSIVE split(_)
split(str) ==
    LET colons == {k \in DOMAIN str : str[k] = ":"}
    IN  IF colons = {}
        THEN <<str>>
        ELSE LET first == CHOOSE k \in colons : \A j \in colons : k <= j
             IN  <<SubSeq(str, 1, first - 1)>>
                 \o split(SubSeq(str, first + 1, Len(str)))

\* The number written by the first n characters, all of them digits.
RECURSIVE digitsValue(_, _)
digitsValue(str, n) ==
    IF n = 0 THEN 0 ELSE 10 * digitsValue(str, n - 1) + DigitValue(str[n])

\* parseInt(part, 10) of a part without sign or leading blank: the number
\* written by its leading digits, NaN (undefined here) when it has none.
parseInt(part) ==
    LET stop == {k \in DOMAIN part : ~IsDigit(part[k])}
        n    == IF stop = {}
                THEN Len(part)
                ELSE (CHOOSE k \in stop : \A j \in stop : k <= j) - 1
    IN  IF n = 0 THEN Undefined ELSE Some(digitsValue(part, n))

\* parts[k] || 0: 0 for a missing part, for NaN and for 0.
partOrZero(parts, k) ==
    IF k \in DOMAIN parts /\ IsDefined(parts[k]) THEN Value(parts[k]) ELSE 0

parseTimeString(timeStr) ==
    LET parts == [k \in DOMAIN split(timeStr) |-> parseInt(split(timeStr)[k])]
    IN  [hours |-> partOrZero(parts, 1), minutes |-> partOrZero(parts, 2)]

\* The duration adding a day also when the two times are equal.
calculateDurationInMinutes_EqualCrossesMidnight(startTime, endTime) ==
    LET start        == parseTimeString(startTime)
        end          == parseTimeString(endTime)
        startMinutes == start.hours * 60 + start.minutes
        endMinutes   == end.hours * 60 + end.minutes
    IN  IF endMinutes <= startMinutes
        THEN endMinutes + (24 * 60) - startMinutes
        ELSE endMinutes - startMinutes

calculateDurationInMinutes(startTime, endTime) ==
    LET start        == parseTimeString(startTime)
        end          == parseTimeString(endTime)
        startMinutes == start.hours * 60 + start.minutes
        endMinutes   == end.hours * 60 + end.minutes
    IN  IF endMinutes < startMinutes
        THEN endMinutes + (24 * 60) - startMinutes
        ELSE endMinutes - startMinutes

\* The string HH:MM of hour h and minute m.
TimeString(h, m) ==
    <<Digits[(h \div 10) + 1], Digits[(h % 10) + 1], ":",
      Digits[(m \div 10) + 1], Digits[(m % 10) + 1]>>

\* The hours and the minutes the time strings are written from.
DurationHours == {0, 1, 9, 17, 22, 23}

DurationMinutes == {0, 30, 59}

TimeStrings == {TimeString(h, m) : h \in DurationHours, m \in DurationMinutes}

InitDuration == InitCall([startTime : TimeStrings, endTime : TimeStrings])

CallCalculateDurationInMinutes ==
    /\ output = Undefined
    /\ Returns("calculateDurationInMinutes",
               calculateDurationInMinutes(Value(input).startTime, Value(input).endTime))

SpecDuration == InitDuration /\ [][CallCalculateDurationInMinutes]_vars

(* ------------------- shiftService.ts: month ranges --------------------- *)
(* A Date built from calendar fields is the pair of its local day number   *)
(* (days since 1 January 1970) and the milliseconds into that day, as the  *)
(* Date constructor and setHours compute them (MakeDay, MakeTime); every   *)
(* local day is taken to have 24 hours.                                    *)

InLeapYear(y) == (y % 4 = 0 /\ y % 100 # 0) \/ y % 400 = 0

DayFromYear(y) ==
    365 * (y - 1970) + ((y - 1969) \div 4) - ((y - 1901) \div 100) + ((y - 1601) \div 400)

\* Days of the year before month index mn (0 is January).
DaysBeforeMonth(mn, leap) ==
    LET common == <<0, 31, 59, 90, 120, 151, 181, 212, 243, 273, 304, 334>>
    IN  common[mn + 1] + (IF leap /\ mn >= 2 THEN 1 ELSE 0)

\* MakeDay(year, month, date): month indices outside 0 .. 11 carry into the
\* year, dates outside the month carry into the neighbouring months.
MakeDay(year, month, date) ==
    LET ym == year + (month \div 12)
        mn == month % 12
    IN  DayFromYear(ym) + DaysBeforeMonth(mn, InLeapYear(ym)) + date - 1

MakeTime(hour, min, sec, ms) == ((hour * 60 + min) * 60 + sec) * 1000 + ms

\* new Date(year, monthIndex, day): local midnight of that day; a year from
\* 0 to 99 is read as 1900 + year.
NewDate(year, monthIndex, day) ==
    LET fullYear == IF year \in 0 .. 99 THEN 1900 + year ELSE year
    IN  [day |-> MakeDay(fullYear, monthIndex, day), time |-> 0]

\* date.setHours(hour, min, sec, ms): the same local day at that time.
setHours(date, hour, min, sec, ms) == [date EXCEPT !.time = MakeTime(hour, min, sec, ms)]

\* The range ending on day 31 of the month's own index.
getMonthDateRange_Day31(year, month) ==
    [startDate |-> setHours(NewDate(year, month - 1, 1), 0, 0, 0, 0),
     endDate   |-> setHours(NewDate(year, month - 1, 31), 23, 59, 59, 999)]

getMonthDateRange(year, month) ==
    LET startDate == NewDate(year, month - 1, 1)
        endDate   == NewDate(year, month, 0)
    IN  [startDate |-> setHours(startDate, 0, 0, 0, 0),
         endDate   |-> setHours(endDate, 23, 59, 59, 999)]

\* The years the ranges are asked for.
RangeYears == {99, 1999, 2000, 2023, 2024, 2025, 2100}

InitMonthRange == InitCall([year : RangeYears, month : 1 .. 12])

CallGetMonthDateRange ==
    /\ output = Undefined
    /\ Returns("getMonthDateRange",
               getMonthDateRange(Value(input).year, Value(input).month))

SpecMonthRange == InitMonthRange /\ [][CallGetMonthDateRange]_vars

(* -------------------- shiftService.ts: batch creation ------------------ *)
(* The 'shifts' collection is a function from document ids to documents.   *)
(* doc(collectionRef) generates an id no document and no earlier reference *)
(* has: the ids are numbered in the order they are generated.  A write     *)
(* batch is the sequence of its set operations; commit applies all of them *)
(* or, when the store rejects it, none.  createShiftsInBatch fills its     *)
(* batch without yielding and then awaits the commit.                      *)

\* The shifts a generated schedule may hold: one employee each, on day 0.
ShiftValues ==
    [storeId : Stores, userId : Users, date : {0},
     startTime : {TimeString(9, 0)}, endTime : {TimeString(17, 0)},
     status : {"planned"}]

ShiftLists == UNION {[1 .. n -> ShiftValues] : n \in 0 .. MaxBatch}

\* { ...shift, date: convertDateToTimestamp(shift.date) }
shiftToSave(shift) == [shift EXCEPT !.date = convertDateToTimestamp(@)]

\* The loop of createShiftsInBatch over the first n shifts: the set
\* operations put in the batch, each with a newly generated reference.
RECURSIVE fillBatch(_, _)
fillBatch(list, n) ==
    IF n = 0
    THEN <<>>
    ELSE Append(fillBatch(list, n - 1),
                [id |-> issued + n, data |-> shiftToSave(list[n])])

\* The collection docs with the first n set operations applied.
RECURSIVE applyWrites(_, _, _)
applyWrites(docs, writes, n) ==
    IF n = 0
    THEN docs
    ELSE LET before == applyWrites(docs, writes, n - 1)
         IN  [id \in DOMAIN before \cup {writes[n].id} |->
                 IF id = writes[n].id THEN writes[n].data ELSE before[id]]

\* The collection after a commit the store accepts.
commitBatch(writes) == applyWrites(shifts, writes, Len(writes))

\* The writes sent one by one, those before the rejected last one stored.
rejectBatch_KeepsEarlierWrites(writes) ==
    IF writes = <<>> THEN shifts ELSE applyWrites(shifts, writes, Len(writes) - 1)

\* The collection after a commit the store rejects.
rejectBatch(writes) == shifts

\* shiftIds, in the order of the loop.
shiftIdsOf(writes) == [k \in DOMAIN writes |-> writes[k].id]

\* createShiftsInBatch up to its await: the batch is filled.
createShiftsInBatchFill(list) ==
    /\ input = Undefined
    /\ issued + Len(list) <= MaxIssued
    /\ input' = Some(list)
    /\ batch' = fillBatch(list, Len(list))
    /\ issued' = issued + Len(list)
    /\ output' = Undefined
    /\ UNCHANGED <<shifts, attendanceVars, preferenceVars, storeVars>>

\* batch.commit() resolves: the ids are returned.
createShiftsInBatchCommit ==
    /\ input # Undefined
    /\ shifts' = commitBatch(batch)
    /\ output' = Some([op |-> "createShiftsInBatch",
                        value |-> [thrown |-> "", shiftIds |-> shiftIdsOf(batch)]])
    /\ input' = Undefined
    /\ batch' = <<>>
    /\ UNCHANGED <<issued, attendanceVars, preferenceVars, storeVars>>

\* batch.commit() rejects: the error is logged and thrown again.
createShiftsInBatchFail ==
    /\ input # Undefined
    /\ shifts' = rejectBatch(batch)
    /\ output' = Some([op |-> "createShiftsInBatch",
                        value |-> [thrown |-> "StoreFailure", shiftIds |-> <<>>]])
    /\ input' = Undefined
    /\ batch' = <<>>
    /\ UNCHANGED <<issued, attendanceVars, preferenceVars, storeVars>>

NextBatch ==
    \/ \E list \in ShiftLists : createShiftsInBatchFill(list)
    \/ createShiftsInBatchCommit
    \/ createShiftsInBatchFail

SpecBatch == Init /\ [][NextBatch]_vars

(* ------------------ aiAssistantService.ts: generateShifts -------------- *)
(* A call is given by what its awaited steps do: which of them rejects, if *)
(* any, and the content of the generator's message.  The content is none,  *)
(* a text that is no JSON, or a JSON value: null, a number, or an object   *)
(* whose field shifts is missing or is null, a string, an object or an     *)
(* array of assignments.  unavailable is the set of employee and date      *)
(* pairs of the loaded shift preferences; like all loaded data it is only  *)
(* sent to the generator.  A date text is <<year, month, day>> for         *)
(* YYYY-MM-DD and <<>> for a text that is no date.                         *)

\* new Date(text): 00:00 UTC of the day for YYYY-MM-DD, an invalid Date
\* (none) for a text that is no date.
DateOfText(text) ==
    IF text = <<>>
    THEN Undefined
    ELSE Some([day |-> MakeDay(text[1], text[2] - 1, text[3]), time |-> 0])

\* generateShifts answering a result without a list with no shifts.
generateShifts_EmptyOnInvalid(run) ==
    IF run.rejects # "none" THEN [thrown |-> run.rejects, shifts |-> <<>>]
    ELSE IF run.content.type = "malformed" THEN [thrown |-> "SyntaxError", shifts |-> <<>>]
    ELSE IF run.content.type = "null" THEN [thrown |-> "TypeError", shifts |-> <<>>]
    ELSE IF run.content.type # "object" \/ run.content.shifts.type # "array"
    THEN [thrown |-> "", shifts |-> <<>>]
    ELSE [thrown |-> "",
          shifts |-> [k \in DOMAIN run.content.shifts.items |->
                         LET shiftData == run.content.shifts.items[k]
                         IN  [id |-> "", userId |-> shiftData.userId,
                              storeId |-> shiftData.storeId,
                              date |-> DateOfText(shiftData.date),
                              startTime |-> shiftData.startTime,
                              endTime |-> shiftData.endTime,
                              status |-> "planned"]]]

\* generateShifts leaving out the assignments on an unavailable date.
generateShifts_DropsUnavailable(run) ==
    IF run.rejects # "none" THEN [thrown |-> run.rejects, shifts |-> <<>>]
    ELSE IF run.content.type = "malformed" THEN [thrown |-> "SyntaxError", shifts |-> <<>>]
    ELSE IF run.content.type = "null" THEN [thrown |-> "TypeError", shifts |-> <<>>]
    ELSE IF run.content.type # "object" \/ run.content.shifts.type # "array"
    THEN [thrown |-> "InvalidGenerationResult", shifts |-> <<>>]
    ELSE LET items == SelectSeq(run.content.shifts.items,
                                LAMBDA shiftData :
                                    <<shiftData.userId, shiftData.date>>
                                        \notin run.unavailable)
         IN  [thrown |-> "",
              shifts |-> [k \in DOMAIN items |->
                             [id |-> "", userId |-> items[k].userId,
                              storeId |-> items[k].storeId,
                              date |-> DateOfText(items[k].date),
                              startTime |-> items[k].startTime,
                              endTime |-> items[k].endTime,
                              status |-> "planned"]]]

\* generateShifts: the error thrown, if any, and the shifts returned.  A
\* rejected load or generator call is thrown again; a missing content is
\* read as '{}'; JSON.parse throws on a text that is no JSON; reading
\* .shifts of null throws and of a number gives undefined.
generateShifts(run) ==
    IF run.rejects # "none" THEN [thrown |-> run.rejects, shifts |-> <<>>]
    ELSE IF run.content.type = "malformed" THEN [thrown |-> "SyntaxError", shifts |-> <<>>]
    ELSE IF run.content.type = "null" THEN [thrown |-> "TypeError", shifts |-> <<>>]
    ELSE IF run.content.type # "object" \/ run.content.shifts.type # "array"
    THEN [thrown |-> "InvalidGenerationResult", shifts |-> <<>>]
    ELSE [thrown |-> "",
          shifts |-> [k \in DOMAIN run.content.shifts.items |->
                         LET shiftData == run.content.shifts.items[k]
                         IN  [id |-> "", userId |-> shiftData.userId,
                              storeId |-> shiftData.storeId,
                              date |-> DateOfText(shiftData.date),
                              startTime |-> shiftData.startTime,
                              endTime |-> shiftData.endTime,
                              status |-> "planned"]]]

\* The assignments name a stored employee or one that is not stored, a
\* date of February 2025, of a leap day or no date, and end after or
\* before their start, with a status and an id of their own.
InitGenerate ==
    LET Assignments ==
            [userId : {"u1", "u3"}, storeId : Stores,
             date : {<<2025, 2, 1>>, <<2024, 2, 29>>, <<>>},
             startTime : {TimeString(9, 0)},
             endTime : {TimeString(17, 0), TimeString(8, 0)},
             status : {"completed"}, id : {"x"}]
        Fields ==
            {[type |-> t] : t \in {"missing", "null", "string", "object"}}
            \cup {[type |-> "array", items |-> items] :
                     items \in UNION {[1 .. n -> Assignments] : n \in 0 .. MaxAssignments}}
        Contents ==
            {[type |-> t] : t \in {"none", "malformed", "null", "number"}}
            \cup {[type |-> "object", shifts |-> f] : f \in Fields}
    IN  InitCall(
            [rejects : {"none"}, content : Contents,
             unavailable : {{}, {<<"u1", <<2025, 2, 1>>>>}}]
            \cup [rejects : {"getAllUsers", "getAllStores",
                             "getAllShiftPreferencesForMonth",
                             "getEventsByDateRange", "create"},
                  content : {[type |-> "none"]}, unavailable : {{}}])

CallGenerateShifts ==
    /\ output = Undefined
    /\ Returns("generateShifts", generateShifts(Value(input)))

SpecGenerate == InitGenerate /\ [][CallGenerateShifts]_vars

(* ---------------------------- eventService.ts ------------------------- *)
(* A call of getUpcomingEvents is given by the events getAllEvents returns *)
(* (the collection ordered by startDate, documents of one startDate in the *)
(* order of the store), the reading of the clock and the number of days.   *)

\* The filter with both comparisons strict.
getEventsByDateRange_Strict(events, startDate, endDate) ==
    LET startTimestamp == convertDateToTimestamp(startDate)
        endTimestamp   == convertDateToTimestamp(endDate)
    IN  SelectSeq(events,
            LAMBDA event :
                /\ startTimestamp.seconds < convertDateToTimestamp(event.endDate).seconds
                /\ endTimestamp.seconds > convertDateToTimestamp(event.startDate).seconds)

getEventsByDateRange(events, startDate, endDate) ==
    LET startTimestamp == convertDateToTimestamp(startDate)
        endTimestamp   == convertDateToTimestamp(endDate)
    IN  SelectSeq(events,
            LAMBDA event :
                /\ startTimestamp.seconds <= convertDateToTimestamp(event.endDate).seconds
                /\ endTimestamp.seconds >= convertDateToTimestamp(event.startDate).seconds)

\* events.sort((a, b) => aStartTime - bStartTime): the first n events in
\* ascending start time, events that compare equal kept in their order.
RECURSIVE sortByStartTime(_, _)
sortByStartTime(events, n) ==
    IF n = 0
    THEN <<>>
    ELSE LET sorted == sortByStartTime(events, n - 1)
             place  == Cardinality({k \in DOMAIN sorted :
                                       sorted[k].startDate <= events[n].startDate})
         IN  SubSeq(sorted, 1, place) \o <<events[n]>> \o SubSeq(sorted, place + 1, Len(sorted))

\* futureDate.setDate(today.getDate() + days): the same time of day, days
\* later.
getUpcomingEvents(events, today, days) ==
    LET futureDate == today + days * MinutesPerDay
        inRange    == getEventsByDateRange(events, today, futureDate)
    IN  sortByStartTime(inRange, Len(inRange))

\* The events start and end on day 0 at 00:00 or 09:20 or on day 1 at
\* 00:00 or 09:20; the calls ask for 0 days or 1 day.
InitEvents ==
    LET Times  == {0, 560, 1440, 2000}
        Events == [id : 1 .. MaxEvents, startDate : Times, endDate : Times]
        Lists  == UNION {[1 .. n -> Events] : n \in 0 .. MaxEvents}
    IN  InitCall({[events |-> events, today |-> TimePoints[k], days |-> days] :
                     events \in {l \in Lists :
                                    /\ \A k \in DOMAIN l :
                                          l[k].id = k /\ l[k].startDate <= l[k].endDate
                                    /\ \A j, k \in DOMAIN l :
                                          j < k => l[j].startDate <= l[k].startDate},
                     k \in DOMAIN TimePoints,
                     days \in 0 .. 1})

CallGetUpcomingEvents ==
    /\ output = Undefined
    /\ Returns("getUpcomingEvents",
               getUpcomingEvents(Value(input).events, Value(input).today,
                                 Value(input).days))

SpecEvents == InitEvents /\ [][CallGetUpcomingEvents]_vars

(* ---------------------------- storeService.ts ------------------------- *)
(* The 'stores' collection is the sequence of its documents, the id of a   *)
(* document being its index.  A document holds the name, the list of skill *)
(* requirements and updatedAt, the reading of the clock at its last write. *)
(* input holds the arguments of the latest call.                           *)

createNewStore(name) ==
    LET newStore ==
            [name |-> name,
             skillRequirements |->
                 <<[day |-> "weekday",
                    kitchen |-> [A |-> 1, B |-> 1, C |-> 0],
                    hall    |-> [A |-> 1, B |-> 1, C |-> 0],
                    sales   |-> [A |-> 1, B |-> 0, C |-> 0]],
                   [day |-> "saturday",
                    kitchen |-> [A |-> 1, B |-> 2, C |-> 0],
                    hall    |-> [A |-> 1, B |-> 2, C |-> 0],
                    sales   |-> [A |-> 2, B |-> 0, C |-> 0]],
                   [day |-> "sunday",
                    kitchen |-> [A |-> 1, B |-> 2, C |-> 0],
                    hall    |-> [A |-> 1, B |-> 2, C |-> 0],
                    sales   |-> [A |-> 2, B |-> 0, C |-> 0]],
                   [day |-> "holiday",
                    kitchen |-> [A |-> 2, B |-> 2, C |-> 0],
                    hall    |-> [A |-> 2, B |-> 2, C |-> 0],
                    sales   |-> [A |-> 2, B |-> 1, C |-> 0]]>>]
    IN  /\ stores' = Append(stores, newStore @@ [updatedAt |-> convertDateToTimestamp(Now)])
        /\ input' = Some([name |-> name])
        /\ output' = Some([op |-> "createNewStore", value |-> Len(stores) + 1])
        /\ UNCHANGED <<attendanceVars, shiftVars, preferenceVars>>

\* The requirement always pushed, without the search for its day.
updatedRequirements_AlwaysPushed(skillRequirements, requirement) ==
    Append(skillRequirements, requirement)

\* updatedRequirements of updateSkillRequirement: the entry at findIndex
\* replaced, or the requirement pushed when findIndex gives -1.
updatedRequirements(skillRequirements, requirement) ==
    LET found == {k \in DOMAIN skillRequirements :
                     skillRequirements[k].day = requirement.day}
    IN  IF found # {}
        THEN [skillRequirements EXCEPT
                 ![CHOOSE k \in found : \A j \in found : k <= j] = requirement]
        ELSE Append(skillRequirements, requirement)

updateSkillRequirement(storeId, requirement) ==
    /\ input' = Some([storeId |-> storeId, day |-> requirement.day])
    /\ IF storeId \notin DOMAIN stores
       THEN /\ output' = Some([op |-> "updateSkillRequirement", value |-> "NotFound"])
            /\ UNCHANGED stores
       ELSE /\ output' = Some([op |-> "updateSkillRequirement", value |-> "ok"])
            /\ stores' =
                  [stores EXCEPT
                      ![storeId].skillRequirements = updatedRequirements(@, requirement),
                      ![storeId].updatedAt = convertDateToTimestamp(Now)]
    /\ UNCHANGED <<attendanceVars, shiftVars, preferenceVars>>

removeSkillRequirement(storeId, day) ==
    /\ input' = Some([storeId |-> storeId, day |-> day])
    /\ IF storeId \notin DOMAIN stores
       THEN /\ output' = Some([op |-> "removeSkillRequirement", value |-> "NotFound"])
            /\ UNCHANGED stores
       ELSE LET filtered == SelectSeq(stores[storeId].skillRequirements,
                                      LAMBDA req : req.day # day)
            IN  /\ output' = Some([op |-> "removeSkillRequirement", value |-> "ok"])
                /\ IF Len(filtered) = Len(stores[storeId].skillRequirements)
                   THEN UNCHANGED stores
                   ELSE stores' =
                            [stores EXCEPT
                                ![storeId].skillRequirements = filtered,
                                ![storeId].updatedAt = convertDateToTimestamp(Now)]
    /\ UNCHANGED <<attendanceVars, shiftVars, preferenceVars>>

\* One store is created; the requirements given to updateSkillRequirement
\* ask for three kitchen workers of skill A on the given day; the store ids
\* are the created one and one that is not stored.
NextStores ==
    \/ Tick
    \/ stores = <<>> /\ createNewStore("store")
    \/ \E storeId \in 1 .. 2, day \in {"weekday", "saturday", "sunday", "holiday"} :
          updateSkillRequirement(storeId,
              [day |-> day,
               kitchen |-> [A |-> 3, B |-> 0, C |-> 0],
               hall    |-> [A |-> 1, B |-> 1, C |-> 0],
               sales   |-> [A |-> 1, B |-> 0, C |-> 0]])
    \/ \E storeId \in 1 .. 2, day \in {"weekday", "saturday", "sunday", "holiday"} :
          removeSkillRequirement(storeId, day)

SpecStores == Init /\ [][NextStores]_vars

(* ----------------- shiftService.ts: the status of a shift -------------- *)
(* completeShift on a 'shifts' collection that holds shifts of today and   *)
(* of tomorrow, planned and completed, next to the attendance handlers of  *)
(* one employee at one reading of the clock.  updateDoc rejects the id of  *)
(* a document that does not exist.                                         *)

\* updateShift with setDoc in place of updateDoc: the document replaced.
updateShift_Replaces(docs, shiftId, shiftData) ==
    [docs EXCEPT ![shiftId] = shiftData]

\* updateShift: the collection docs after the update of an existing shift,
\* a date among the fields converted, every field not given kept.
updateShift(docs, shiftId, shiftData) ==
    [docs EXCEPT ![shiftId] =
        [f \in DOMAIN @ |->
            IF f \notin DOMAIN shiftData THEN @[f]
            ELSE IF f = "date" THEN convertDateToTimestamp(shiftData[f])
            ELSE shiftData[f]]]

completeShift(shiftId) ==
    /\ IF shiftId \in DOMAIN shifts
       THEN /\ shifts' = updateShift(shifts, shiftId, [status |-> "completed"])
            /\ output' = Some([op |-> "completeShift", value |-> "ok"])
       ELSE /\ shifts' = shifts
            /\ output' = Some([op |-> "completeShift", value |-> "StoreFailure"])
    /\ UNCHANGED <<input, batch, issued, attendanceVars, preferenceVars, storeVars>>

\* Two stored shifts, each of either employee, of today or of tomorrow,
\* planned or completed.
InitShiftStatus ==
    /\ InitAttendances
    /\ InitFunctions
    /\ InitPreferences
    /\ InitStores
    /\ shifts \in [1 .. 2 ->
                     {shiftToSave([v EXCEPT !.date = date, !.status = status]) :
                         v \in ShiftValues,
                         date \in {0, MinutesPerDay},
                         status \in {"planned", "completed"}}]
    /\ batch = <<>>
    /\ issued = 2

NextShiftStatus ==
    \/ \E shiftId \in 1 .. 3 : completeShift(shiftId)
    \/ clockIn(Employee, Store)
    \/ startBreak(Record)
    \/ endBreak(Record)
    \/ clockOut(Record)

SpecShiftStatus == InitShiftStatus /\ [][NextShiftStatus]_vars

(* ------------------------ shiftPreferenceService.ts -------------------- *)
(* The 'shiftPreferences' collection is a function from document ids to    *)
(* documents.  addDoc stores under an id no document has; the ids are      *)
(* numbered in the order they are generated.  A preference handed to       *)
(* saveShiftPreference carries the id of a stored document or none (0).    *)
(* submittedAt, the weekdays, the dates and the notes are left out of the  *)
(* documents: no query reads them.                                         *)

PreferenceYears == {2025}

PreferenceMonths == {1, 2}

DesiredDays == {3, 5}

PreferenceDocuments ==
    [userId : Users, year : PreferenceYears, month : PreferenceMonths,
     desiredDaysPerWeek : DesiredDays]

\* The query of getUserShiftPreference: the ids of the matching documents.
userShiftPreferences(userId, year, month) ==
    {id \in DOMAIN shiftPreferences :
        /\ shiftPreferences[id].userId = userId
        /\ shiftPreferences[id].year = year
        /\ shiftPreferences[id].month = month}

\* The ids getUserShiftPreference may return: preferences[0] of a query
\* without an order, or null (0) when nothing matches.
getUserShiftPreference(userId, year, month) ==
    IF userShiftPreferences(userId, year, month) = {}
    THEN {0}
    ELSE userShiftPreferences(userId, year, month)

\* a || b on ids, the absent id being falsy.
OrElse(a, b) == IF a # 0 THEN a ELSE b

\* The id firestoreService.setDocument writes under: the given one, or
\* the one addDoc generates when none is given.
documentIdOf(documentId) ==
    IF documentId # 0
    THEN documentId
    ELSE Cardinality(DOMAIN shiftPreferences) + 1

\* firestoreService.setDocument on 'shiftPreferences': the collection after
\* setDoc under the given id, or after addDoc when none is given.
setPreferenceDocument(data, documentId) ==
    [id \in DOMAIN shiftPreferences \cup {documentIdOf(documentId)} |->
        IF id = documentIdOf(documentId) THEN data ELSE shiftPreferences[id]]

saveShiftPreference(preferenceId, preference) ==
    /\ \E existingPreference \in
            getUserShiftPreference(preference.userId, preference.year, preference.month) :
          LET documentId == OrElse(existingPreference, preferenceId)
          IN  /\ shiftPreferences' = setPreferenceDocument(preference, documentId)
              /\ output' = Some([op |-> "saveShiftPreference",
                                  value |-> documentIdOf(documentId)])
    /\ Cardinality(DOMAIN shiftPreferences') <= MaxPreferences
    /\ input' = Undefined
    /\ UNCHANGED <<attendanceVars, shiftVars, storeVars>>

createEmptyPreference(userId, year, month) ==
    /\ Cardinality(DOMAIN shiftPreferences) < MaxPreferences
    /\ shiftPreferences' =
           setPreferenceDocument([userId |-> userId, year |-> year, month |-> month,
                                  desiredDaysPerWeek |-> 5], 0)
    /\ output' = Some([op |-> "createEmptyPreference", value |-> documentIdOf(0)])
    /\ input' = Undefined
    /\ UNCHANGED <<attendanceVars, shiftVars, storeVars>>

NextPreferences ==
    \/ \E preferenceId \in {0} \cup DOMAIN shiftPreferences,
          preference \in PreferenceDocuments :
          saveShiftPreference(preferenceId, preference)
    \/ \E userId \in Users, year \in PreferenceYears, month \in PreferenceMonths :
          createEmptyPreference(userId, year, month)

SpecPreferences == Init /\ [][NextPreferences]_vars

(* ----------- shiftPreferenceService.ts: submission status -------------- *)
(* A call is given by the documents of the 'users' collection in the order *)
(* of their names, the documents of the 'shiftPreferences' collection and  *)
(* the month asked for.                                                    *)

getSubmissionStatusForMonth(users, preferences, year, month) ==
    LET allUsers == SelectSeq(users, LAMBDA user : user.role = "employee")
        submittedPreferences ==
            SelectSeq(preferences,
                      LAMBDA preference :
                          preference.year = year /\ preference.month = month)
        submittedUserIds ==
            [k \in DOMAIN submittedPreferences |-> submittedPreferences[k].userId]
    IN  [totalUsers     |-> Len(allUsers),
         submittedUsers |-> Len(submittedUserIds),
         userStatus     |->
             [k \in DOMAIN allUsers |->
                 [userId    |-> allUsers[k].id,
                  submitted |-> \E j \in DOMAIN submittedUserIds :
                                    submittedUserIds[j] = allUsers[k].id]]]

\* The users are an administrator and two employees, any of them stored;
\* the preferences are of the administrator, of an employee and of a user
\* that is no longer stored, for January or February 2025.
InitSubmission ==
    LET Roles == [a1 |-> "admin", u1 |-> "employee", u2 |-> "employee"]
        Names == <<"a1", "u1", "u2">>
        UserLists ==
            {[k \in DOMAIN l |-> [id |-> l[k], role |-> Roles[l[k]]]] :
                l \in {SelectSeq(Names, LAMBDA n : n \in stored) :
                          stored \in SUBSET DOMAIN Roles}}
        Preferences ==
            [userId : {"a1", "u1", "u0"}, year : PreferenceYears,
             month : PreferenceMonths]
    IN  InitCall(
            [users : UserLists,
             preferences : UNION {[1 .. n -> Preferences] : n \in 0 .. MaxPreferences},
             year : PreferenceYears, month : {1}])

CallGetSubmissionStatusForMonth ==
    /\ output = Undefined
    /\ LET i == Value(input)
       IN  Returns("getSubmissionStatusForMonth",
                   getSubmissionStatusForMonth(i.users, i.preferences, i.year, i.month))

SpecSubmission == InitSubmission /\ [][CallGetSubmissionStatusForMonth]_vars

(* ------------ shiftPreferenceService.ts: unavailable dates ------------- *)
(* One stored preference with its list of unavailable dates and its        *)
(* submission time; serverTimestamp() is the reading of the clock.  input  *)
(* holds the arguments of the latest call.                                 *)

\* The comparison of the two handlers with the time of day compared too.
sameCalendarDay_SameInstant(existingDate, date) == existingDate = date

\* getFullYear, getMonth and getDate of the two dates agree: both lie
\* between the same two local midnights.
sameCalendarDay(existingDate, date) == startOfDay(existingDate) = startOfDay(date)

addUnavailableDate(preferenceId, date) ==
    /\ input' = Some([preferenceId |-> preferenceId, date |-> date])
    /\ IF preferenceId \notin DOMAIN shiftPreferences
       THEN /\ output' = Some([op |-> "addUnavailableDate", value |-> "NotFound"])
            /\ UNCHANGED shiftPreferences
       ELSE LET stored == shiftPreferences[preferenceId].unavailableDates
                unavailableDates ==
                    [k \in DOMAIN stored |-> convertTimestampToDate(stored[k])]
                dateExists ==
                    \E k \in DOMAIN unavailableDates :
                        sameCalendarDay(unavailableDates[k], date)
                updated == Append(unavailableDates, date)
            IN  /\ output' = Some([op |-> "addUnavailableDate", value |-> "ok"])
                /\ IF dateExists
                   THEN UNCHANGED shiftPreferences
                   ELSE /\ Len(unavailableDates) < MaxDates
                        /\ shiftPreferences' =
                              [shiftPreferences EXCEPT
                                  ![preferenceId].unavailableDates =
                                      [k \in DOMAIN updated |->
                                          convertDateToTimestamp(updated[k])],
                                  ![preferenceId].submittedAt =
                                      convertDateToTimestamp(Now)]
    /\ UNCHANGED <<attendanceVars, shiftVars, storeVars>>

removeUnavailableDate(preferenceId, date) ==
    /\ input' = Some([preferenceId |-> preferenceId, date |-> date])
    /\ IF preferenceId \notin DOMAIN shiftPreferences
       THEN /\ output' = Some([op |-> "removeUnavailableDate", value |-> "NotFound"])
            /\ UNCHANGED shiftPreferences
       ELSE LET stored == shiftPreferences[preferenceId].unavailableDates
                unavailableDates ==
                    [k \in DOMAIN stored |-> convertTimestampToDate(stored[k])]
                updatedDates ==
                    SelectSeq(unavailableDates,
                              LAMBDA existingDate : ~sameCalendarDay(existingDate, date))
            IN  /\ output' = Some([op |-> "removeUnavailableDate", value |-> "ok"])
                /\ shiftPreferences' =
                      [shiftPreferences EXCEPT
                          ![preferenceId].unavailableDates =
                              [k \in DOMAIN updatedDates |->
                                  convertDateToTimestamp(updatedDates[k])],
                          ![preferenceId].submittedAt = convertDateToTimestamp(Now)]
    /\ UNCHANGED <<attendanceVars, shiftVars, storeVars>>

\* A preference of January 2025 without unavailable dates, submitted at
\* the first reading of the clock.
InitDates ==
    /\ InitAttendances
    /\ InitFunctions
    /\ InitShifts
    /\ InitStores
    /\ shiftPreferences =
          <<[userId |-> Employee, year |-> 2025, month |-> 1,
             desiredDaysPerWeek |-> 5, unavailableDates |-> <<>>,
             submittedAt |-> convertDateToTimestamp(Now)]>>

\* The dates given to the calls: day 0 at 00:00 and 09:00, day 1 at 00:00
\* and 15:00, day 2 at 00:00; the preference ids: the stored one and one
\* that is not stored.
NextDates ==
    \/ Tick
    \/ \E preferenceId \in 1 .. 2, date \in {0, 540, 1440, 2340, 2880} :
          addUnavailableDate(preferenceId, date)
    \/ \E preferenceId \in 1 .. 2, date \in {0, 540, 1440, 2340, 2880} :
          removeUnavailableDate(preferenceId, date)

SpecDates == InitDates /\ [][NextDates]_vars

(* ---------------- attendanceService.ts: monthly statistics ------------- *)

\* Day 0 of the attendance clock is 30 January 2025.
DayZero == MakeDay(2025, 0, 30)

\* A Date built from calendar fields as minutes of the attendance clock.
toMinutes(date) == (date.day - DayZero) * MinutesPerDay + (date.time \div 60000)

\* createOrderConstraint('date'): the ids in ascending order of the stored
\* date, documents of equal date in id order.
RECURSIVE orderByDate(_)
orderByDate(ids) ==
    IF ids = {}
    THEN <<>>
    ELSE LET first == CHOOSE i \in ids :
                         \A j \in ids :
                            \/ i = j
                            \/ ~TimestampLeq(attendances[j].date, attendances[i].date)
                            \/ attendances[j].date = attendances[i].date /\ i < j
         IN  <<first>> \o orderByDate(ids \ {first})

getUserAttendancesForPeriod(userId, startDate, endDate) ==
    LET startTimestamp == convertDateToTimestamp(startDate)
        endTimestamp   == convertDateToTimestamp(endDate)
        found == orderByDate({i \in DOMAIN attendances :
                                /\ attendances[i].userId = userId
                                /\ TimestampLeq(startTimestamp, attendances[i].date)
                                /\ TimestampLeq(attendances[i].date, endTimestamp)})
    IN  [k \in DOMAIN found |-> convertTimestamps([id |-> found[k]] @@ attendances[found[k]])]

\* The forEach loop over the first n records: the sum of the totalWorkHours
\* that are numbers.
RECURSIVE sumTotalHours(_, _)
sumTotalHours(records, n) ==
    IF n = 0
    THEN 0
    ELSE sumTotalHours(records, n - 1)
         + (IF IsDefined(records[n].totalWorkHours)
            THEN Value(records[n].totalWorkHours)
            ELSE 0)

\* The statistics with the days counted over the clocked-out records only.
getMonthlyAttendanceStats_ClockedOutDays(userId, year, month) ==
    LET startDate  == toMinutes(NewDate(year, month - 1, 1))
        endDate    == toMinutes(NewDate(year, month, 0))
        records    == getUserAttendancesForPeriod(userId, startDate, endDate)
        totalDays  == Cardinality({k \in DOMAIN records :
                                     IsDefined(records[k].totalWorkHours)})
        totalHours == sumTotalHours(records, Len(records))
    IN  [totalDays  |-> totalDays,
         totalHours |-> totalHours,
         lateCount  |-> Cardinality({k \in DOMAIN records : records[k].status = "late"}),
         earlyCount |-> Cardinality({k \in DOMAIN records : records[k].status = "early"}),
         averageHoursPerDay |-> IF totalDays > 0 THEN MathRound(totalHours, totalDays) ELSE 0]

\* totalHours and averageHoursPerDay in hundredths of an hour.
getMonthlyAttendanceStats(userId, year, month) ==
    LET startDate  == toMinutes(NewDate(year, month - 1, 1))
        endDate    == toMinutes(NewDate(year, month, 0))
        records    == getUserAttendancesForPeriod(userId, startDate, endDate)
        totalDays  == Len(records)
        totalHours == sumTotalHours(records, Len(records))
    IN  [totalDays  |-> totalDays,
         totalHours |-> totalHours,
         lateCount  |-> Cardinality({k \in DOMAIN records : records[k].status = "late"}),
         earlyCount |-> Cardinality({k \in DOMAIN records : records[k].status = "early"}),
         averageHoursPerDay |-> IF totalDays > 0 THEN MathRound(totalHours, totalDays) ELSE 0]

\* The times given to clockIn and clockOut: 30 January 09:20 and 17:50,
\* 31 January 08:55 and 16:30, 1 February 08:55.
StatsTimes == {560, 1070, 1975, 2430, 3415}

StatsYears == {2025}

StatsMonths == {1, 2}

CallGetMonthlyAttendanceStats(userId, year, month) ==
    /\ input' = Some([userId |-> userId, year |-> year, month |-> month])
    /\ output' = Some([op |-> "getMonthlyAttendanceStats",
                       value |-> getMonthlyAttendanceStats(userId, year, month)])
    /\ UNCHANGED <<attendanceVars, shiftVars, preferenceVars, storeVars>>

\* One employee clocks in and out over three days, each clock-out not
\* before its clock-in; the statistics are asked for any employee and month.
NextStats ==
    \/ \E t \in StatsTimes : clockInAt(Employee, Store, t)
    \/ \E id \in AttendanceIds, t \in StatsTimes :
          /\ id \in DOMAIN attendances => t >= convertTimestamps(attendances[id]).clockInTime
          /\ clockOutAt(id, t)
    \/ \E userId \in Users, year \in StatsYears, month \in StatsMonths :
          CallGetMonthlyAttendanceStats(userId, year, month)

SpecStats == Init /\ [][NextStats]_vars

(* ------------------------------ properties ----------------------------- *)

\* The stored document with its Timestamps read back as Dates.
Att(id) == convertTimestamps(attendances[id])

AttNext(id) == convertTimestamps(attendances'[id])

OpenBreaks(attendance) ==
    {k \in DOMAIN attendance.breakTimes : attendance.breakTimes[k].endTime = Undefined}

ClockedOut(attendance) == attendance.clockOutTime # Undefined

\* The ids of the documents of an employee on the calendar day of instant t.
RecordsOf(userId, t) ==
    {i \in DOMAIN attendances :
        /\ attendances[i].userId = userId
        /\ Att(i).date \div (24 * 60) = t \div (24 * 60)}

\* A step of the one-at-a-time specification that is a call of op.
Called(op) == now' = now /\ last'.op = op

BreakOps == {"startBreak", "endBreak", "clockOut"}

\* C1: with clockIn calls run one after another, a clockIn of an employee
\* who already has a record on the calendar day of the call fails with
\* AlreadyClockedIn and stores nothing, a clockIn of an employee without a
\* record on that day (the same employee on another day, another employee
\* on the same day) succeeds and stores one record, and so there is never
\* more than one record per employee and calendar day.
C1_OneRecordPerEmployeeDay ==
    /\ [](\A i, j \in DOMAIN attendances :
            (attendances[i].userId = attendances[j].userId
             /\ attendances[i].date = attendances[j].date) => i = j)
    /\ [][Called("clockIn") =>
            IF RecordsOf(last'.userId, Now) # {}
            THEN last'.result = "AlreadyClockedIn" /\ attendances' = attendances
            ELSE /\ last'.result = "ok"
                 /\ Len(attendances') = Len(attendances) + 1
                 /\ SubSeq(attendances', 1, Len(attendances)) = attendances
                 /\ last'.id = Len(attendances')
                 /\ AttNext(last'.id).userId = last'.userId
                 /\ AttNext(last'.id).clockInTime = Now]_vars

\* A second clockIn of the same employee on the same day, at a later time of
\* day, has failed while another employee holds a record for that day too.
C1_Witness ==
    /\ last.op = "clockIn"
    /\ last.result = "AlreadyClockedIn"
    /\ \E i \in DOMAIN attendances :
          /\ attendances[i].userId = last.userId
          /\ Att(i).clockInTime < Now
          /\ Att(i).date \div (24 * 60) = Now \div (24 * 60)
    /\ \E j \in DOMAIN attendances : attendances[j].userId # last.userId

\* C2: a clockIn that has passed its existence query inserts its record
\* whatever was stored in between: its write step adds one record of its
\* employee and date and returns the new id, so two concurrent calls for one
\* employee and day both insert and neither fails with AlreadyClockedIn.
C2_CheckedClockInAlwaysInserts ==
    [][\A p \in Procs :
          (pc[p] = "write" /\ call[p].op = "clockIn" /\ pc'[p] = "idle") =>
              /\ Len(attendances') = Len(attendances) + 1
              /\ attendances'[Len(attendances')].userId = call[p].userId
              /\ AttNext(Len(attendances')).clockInTime = call[p].time
              /\ last'.result = "ok"]_vars

\* Two records of one employee and calendar day are stored, the second by a
\* call that returned its id.
C2_Witness ==
    /\ \E i, j \in DOMAIN attendances :
          /\ i # j
          /\ attendances[i].userId = attendances[j].userId
          /\ attendances[i].date = attendances[j].date
    /\ last.op = "clockIn"
    /\ last.result = "ok"
    /\ last.id = Len(attendances)

\* C3: in every state of the interleaved read and write steps of clockIn,
\* startBreak, endBreak and clockOut, every stored record has at most one
\* break without an end time.
C3_AtMostOneOpenBreak ==
    \A i \in DOMAIN attendances : Cardinality(OpenBreaks(attendances[i])) <= 1

\* A record holds an open break while a startBreak that read the record
\* before that break was written is still to write its own break list.
C3_Witness ==
    \E i \in DOMAIN attendances, p \in Procs :
        /\ Cardinality(OpenBreaks(attendances[i])) = 1
        /\ pc[p] = "write"
        /\ call[p].op = "startBreak"
        /\ call[p].id = i
        /\ Len(Value(snap[p]).breakTimes) < Len(attendances[i].breakTimes)

\* C4: startBreak on a record that has an open break fails with
\* BreakAlreadyActive, endBreak on a record without an open break fails with
\* NoActiveBreak, and neither writes anything.
C4_BreakStateErrors ==
    [][/\ (/\ Called("startBreak")
           /\ last'.id \in DOMAIN attendances
           /\ OpenBreaks(attendances[last'.id]) # {})
          => (last'.result = "BreakAlreadyActive" /\ attendances' = attendances)
       /\ (/\ Called("endBreak")
           /\ last'.id \in DOMAIN attendances
           /\ OpenBreaks(attendances[last'.id]) = {})
          => (last'.result = "NoActiveBreak" /\ attendances' = attendances)]_vars

\* A startBreak has failed with BreakAlreadyActive on a record whose second
\* break is open.
C4_Witness ==
    /\ last.op = "startBreak"
    /\ last.result = "BreakAlreadyActive"
    /\ last.id \in DOMAIN attendances
    /\ Len(attendances[last.id].breakTimes) = 2
    /\ OpenBreaks(attendances[last.id]) = {2}

\* A step of the interleaved specification in which process p writes.
WriteStep(p) == pc[p] = "write" /\ pc'[p] = "idle"

\* A step of the interleaved specification in which a call of op on the
\* record id passes its checks.
PassesChecks(op, id) ==
    \E p \in Procs :
        pc[p] = "idle" /\ pc'[p] = "write" /\ call'[p].op = op /\ call'[p].id = id

\* A step of the interleaved specification in which a call of op on the
\* record id fails.
FailsChecks(op, id) == pc' = pc /\ last'.op = op /\ last'.id = id

\* C5: on a record with a clock-out time, startBreak and clockOut fail with
\* AlreadyClockedOut and write nothing, also when the record holds an open
\* break (startBreak tests the clock-out time first).
C5_ClockedOutErrors ==
    [][\A id \in DOMAIN attendances : \A op \in {"startBreak", "clockOut"} :
          ClockedOut(attendances[id]) =>
              /\ ~PassesChecks(op, id)
              /\ FailsChecks(op, id) =>
                    (last'.result = "AlreadyClockedOut" /\ attendances' = attendances)]_vars

\* A startBreak has failed with AlreadyClockedOut on a record that has a
\* clock-out time and an open break.
C5_Witness ==
    /\ last.op = "startBreak"
    /\ last.result = "AlreadyClockedOut"
    /\ last.id \in DOMAIN attendances
    /\ ClockedOut(attendances[last.id])
    /\ OpenBreaks(attendances[last.id]) # {}

\* C6: startBreak, endBreak and clockOut with an id that names no stored
\* record fail with NotFound and leave the collection as it was.
C6_NotFound ==
    [][\A op \in BreakOps :
          (Called(op) /\ last'.id \notin DOMAIN attendances) =>
              (last'.result = "NotFound" /\ attendances' = attendances)]_vars

\* An endBreak with an unused id has failed with NotFound while another
\* record, on a break, is stored.
C6_Witness ==
    /\ last.op = "endBreak"
    /\ last.result = "NotFound"
    /\ last.id \notin DOMAIN attendances
    /\ \E i \in DOMAIN attendances : OpenBreaks(attendances[i]) # {}

\* Minutes of the first n breaks, a break without an end time counted up to
\* the instant out.
RECURSIVE BreakMinutes(_, _, _)
BreakMinutes(breakTimes, n, out) ==
    IF n = 0
    THEN 0
    ELSE BreakMinutes(breakTimes, n - 1, out)
         + (IF breakTimes[n].endTime = Undefined
            THEN out - breakTimes[n].startTime
            ELSE breakTimes[n].endTime[1] - breakTimes[n].startTime)

\* Worked minutes as hundredths of an hour, halves rounded up.
Hundredths(minutes) == (10 * minutes + 3) \div 6

\* C7: clockOut on a record with an open break succeeds, ends that break at
\* the clock-out instant, leaves no break open, and stores the total of the
\* elapsed time less every break, the closed one included.
C7_ClockOutClosesBreak ==
    [][(/\ Called("clockOut")
        /\ last'.id \in DOMAIN attendances
        /\ OpenBreaks(attendances[last'.id]) # {})
       => LET old == Att(last'.id)
              new == AttNext(last'.id)
          IN  /\ last'.result = "ok"
              /\ new.clockOutTime = <<Now>>
              /\ OpenBreaks(new) = {}
              /\ \A k \in DOMAIN old.breakTimes :
                    /\ new.breakTimes[k].startTime = old.breakTimes[k].startTime
                    /\ new.breakTimes[k].endTime =
                          IF k \in OpenBreaks(old) THEN <<Now>> ELSE old.breakTimes[k].endTime
              /\ new.totalWorkHours =
                    <<Hundredths(Now - old.clockInTime
                                 - BreakMinutes(old.breakTimes, Len(old.breakTimes), Now))>>]_vars

\* A clockOut has succeeded on a record whose second break was open: that
\* break ends at the clock-out instant and has lasted some time.
C7_Witness ==
    /\ last.op = "clockOut"
    /\ last.result = "ok"
    /\ LET a == Att(last.id)
       IN  /\ Len(a.breakTimes) = 2
           /\ a.breakTimes[2].endTime = a.clockOutTime
           /\ a.breakTimes[2].startTime < a.clockOutTime[1]
           /\ a.breakTimes[1].endTime[1] < a.clockOutTime[1]

Days == {TimePoints[k] \div (24 * 60) : k \in DOMAIN TimePoints}

\* The state of an employee's day in the collection docs.
AttState(docs, userId, day) ==
    LET ids == {i \in DOMAIN docs :
                   /\ docs[i].userId = userId
                   /\ convertTimestampToDate(docs[i].date) \div (24 * 60) = day}
    IN  IF ids = {} THEN "NotClockedIn"
        ELSE LET doc == docs[CHOOSE i \in ids : TRUE]
             IN  IF ClockedOut(doc) THEN "ClockedOut"
                 ELSE IF OpenBreaks(doc) # {} THEN "OnBreak"
                 ELSE "ClockedIn"

StatePaths ==
    {<<"NotClockedIn", "ClockedIn">>, <<"ClockedIn", "OnBreak">>,
     <<"OnBreak", "ClockedIn">>, <<"ClockedIn", "ClockedOut">>,
     <<"OnBreak", "ClockedOut">>}

\* C8: with the operations run one after another, a record with a clock-out
\* time never changes again, every later startBreak, endBreak and clockOut
\* on it fails, and the state of an employee's day only moves along
\* NotClockedIn -> ClockedIn, ClockedIn <-> OnBreak, ClockedIn or OnBreak ->
\* ClockedOut.
C8_ClockedOutIsTerminal ==
    /\ [][\A id \in DOMAIN attendances :
             ClockedOut(attendances[id]) => attendances'[id] = attendances[id]]_vars
    /\ [][\A op \in BreakOps :
             (/\ Called(op)
              /\ last'.id \in DOMAIN attendances
              /\ ClockedOut(attendances[last'.id]))
             => last'.result \in {"AlreadyClockedOut", "NoActiveBreak"}]_vars
    /\ [][\A userId \in Users, day \in Days :
             LET from == AttState(attendances, userId, day)
                 to   == AttState(attendances', userId, day)
             IN  from = to \/ <<from, to>> \in StatePaths]_vars

\* An endBreak has failed on a record that was clocked out with two breaks
\* taken.
C8_Witness ==
    /\ last.op = "endBreak"
    /\ last.result = "NoActiveBreak"
    /\ last.id \in DOMAIN attendances
    /\ ClockedOut(attendances[last.id])
    /\ Len(attendances[last.id].breakTimes) = 2

\* C9 as stated: with the read and write steps interleaved, no call writes
\* to a record once it has a clock-out time.
C9_NoWriteAfterClockOut ==
    [][\A p \in Procs :
          (WriteStep(p) /\ call[p].op \in BreakOps) =>
              ~ClockedOut(attendances[call[p].id])]_vars

\* C9 as amended: a write to a record that has a clock-out time comes from a
\* call that read the record before the clock-out time was written, or from
\* an endBreak (which does not test the clock-out time); startBreak and
\* clockOut calls that read the clock-out time write nothing, and a
\* clock-out time, once stored, stays stored.
C9_OnlyStaleReadersWriteAfterClockOut ==
    /\ [][\A p \in Procs :
             (/\ WriteStep(p)
              /\ call[p].op \in BreakOps
              /\ ClockedOut(attendances[call[p].id]))
             => (~ClockedOut(Value(snap[p])) \/ call[p].op = "endBreak")]_vars
    /\ [][\A id \in DOMAIN attendances :
             ClockedOut(attendances[id]) => ClockedOut(attendances'[id])]_vars

\* A startBreak that read the record before the clock-out has written its
\* break list after it: the clocked-out record holds an open break.
C9_Witness ==
    /\ last.op = "startBreak"
    /\ last.result = "ok"
    /\ ClockedOut(attendances[last.id])
    /\ OpenBreaks(attendances[last.id]) # {}

\* C10: no operation changes the status of a record from late to anything
\* else; a record late at clockIn is late after clockOut.
C10_LateStaysLate ==
    [][\A id \in DOMAIN attendances :
          attendances[id].status = "late" => attendances'[id].status = "late"]_vars

\* A record clocked in at 09:20 and clocked out at 16:30, before the
\* expected end of 17:00, has status late.
C10_Witness ==
    \E id \in DOMAIN attendances :
        /\ Att(id).clockInTime = 9 * 60 + 20
        /\ Att(id).clockOutTime = <<16 * 60 + 30>>
        /\ attendances[id].status = "late"

(* ------------------------------ C11 .. C20 ----------------------------- *)

C12_NormalUnlessBeforeEndHour ==
    [][(last'.op = "clockOut" /\ last'.result = "ok"
        /\ Att(last'.id).status = "normal") =>
          LET old == Att(last'.id)
              new == AttNext(last'.id)
              out == Value(new.clockOutTime)
              E   == IF (old.clockInTime % MinutesPerDay) \div 60 < 12 THEN 17 ELSE 21
          IN  new.status = IF (out % MinutesPerDay) \div 60 >= E
                           THEN "normal"
                           ELSE "early"]_vars

\* Minutes of the breaks with indices in S that have a start and an end.
RECURSIVE CompleteMinutes(_, _)
CompleteMinutes(breakTimes, S) ==
    IF S = {}
    THEN 0
    ELSE LET k == CHOOSE x \in S : TRUE
         IN  CompleteMinutes(breakTimes, S \ {k})
             + (IF breakTimes[k].endTime = Undefined
                THEN 0
                ELSE breakTimes[k].endTime[1] - breakTimes[k].startTime)

C14_WithinElapsed ==
    \A id \in DOMAIN attendances :
        ClockedOut(attendances[id]) =>
            LET a == Att(id)
            IN  /\ a.totalWorkHours[1] >= 0
                /\ a.totalWorkHours[1] * 60 <= (a.clockOutTime[1] - a.clockInTime) * 100

\* C14 amended: the stored totalWorkHours is at least 0 and at most the
\* elapsed time between clock-in and clock-out rounded to hundredths of an
\* hour.
C14_WithinRoundedElapsed ==
    \A id \in DOMAIN attendances :
        ClockedOut(attendances[id]) =>
            LET a == Att(id)
            IN  /\ a.totalWorkHours[1] >= 0
                /\ a.totalWorkHours[1] <= Hundredths(a.clockOutTime[1] - a.clockInTime)

\* A record clocked out after two breaks that lasted some time, with less
\* than the elapsed time stored.
C14_Witness ==
    \E id \in DOMAIN attendances :
        /\ ClockedOut(attendances[id])
        /\ LET a == Att(id)
           IN  /\ Len(a.breakTimes) = 2
               /\ \A k \in 1 .. 2 : a.breakTimes[k].startTime < a.breakTimes[k].endTime[1]
               /\ a.totalWorkHours[1] > 0
               /\ a.totalWorkHours[1] < Hundredths(a.clockOutTime[1] - a.clockInTime)

\* C15: calculateTotalWorkHours(in, out, breaks) returns the same value for
\* every reordering of breaks, whatever in and out are and whether or not
\* the breaks have an end time.
C15_OrderOfBreaksIrrelevant ==
    (output # Undefined /\ Value(output).op = "calculateTotalWorkHours") =>
        LET i == Value(input)
        IN  \A p \in Permutations(DOMAIN i.breakTimes) :
               calculateTotalWorkHours(i.clockInTime, i.clockOutTime,
                                       [k \in DOMAIN i.breakTimes |-> i.breakTimes[p[k]]])
                  = Value(output).value

\* The function has returned for a break without an end time followed by a
\* different, complete break of some length.
C15_Witness ==
    /\ output # Undefined
    /\ Value(output).op = "calculateTotalWorkHours"
    /\ LET i == Value(input)
       IN  /\ Len(i.breakTimes) = 2
           /\ i.breakTimes[1].endTime = Undefined
           /\ i.breakTimes[2].endTime # Undefined
           /\ i.breakTimes[2].startTime # i.breakTimes[1].startTime
           /\ i.breakTimes[2].startTime < i.breakTimes[2].endTime[1]

\* C17: for well-formed HH:MM strings of times hs:ms and he:me,
\* calculateDurationInMinutes returns (he * 60 + me - (hs * 60 + ms)) mod
\* 1440: the difference when the end is not before the start, the difference
\* plus 1440 when it is, 0 when they are equal; always in 0 .. 1439, 180 for
\* ("22:00", "01:00") and 510 for ("09:00", "17:30").
C17_DurationModuloDay ==
    output # Undefined =>
        \E hs \in 0 .. 23, ms \in 0 .. 59 :
          /\ Value(input).startTime = TimeString(hs, ms)
          /\ \E he \in 0 .. 23, me \in 0 .. 59 :
            /\ Value(input).endTime = TimeString(he, me)
            /\ LET s == hs * 60 + ms
                   e == he * 60 + me
                   d == Value(output).value
               IN  /\ d = (e - s) % 1440
                   /\ d \in 0 .. 1439
                   /\ e >= s => d = e - s
                   /\ e < s => d = e - s + 1440
                   /\ e = s => d = 0
                   /\ (hs = 22 /\ ms = 0 /\ he = 1 /\ me = 0) => d = 180
                   /\ (hs = 9 /\ ms = 0 /\ he = 17 /\ me = 30) => d = 510

\* The function has returned for "22:00" and "01:00", an end before the
\* start.
C17_Witness ==
    /\ output # Undefined
    /\ Value(input).startTime = <<"2", "2", ":", "0", "0">>
    /\ Value(input).endTime = <<"0", "1", ":", "0", "0">>
    /\ Value(output).value = 180

\* Length of month m (1 .. 12) of year y by the calendar's rule.
MonthLength(y, m) ==
    IF m = 2
    THEN IF (y % 4 = 0 /\ y % 100 # 0) \/ y % 400 = 0 THEN 29 ELSE 28
    ELSE IF m \in {4, 6, 9, 11} THEN 30 ELSE 31

\* Days of the months of year y before month m.
RECURSIVE DaysOfMonthsBefore(_, _)
DaysOfMonthsBefore(y, m) ==
    IF m = 1 THEN 0 ELSE DaysOfMonthsBefore(y, m - 1) + MonthLength(y, m - 1)

\* Days from 1 January 1970 to day 1 of month m of year y (negative before
\* 1970): 365 for every year in between, one more for each of them that
\* has a 29 February.
DaysUpTo(y, m) ==
    365 * (y - 1970)
    + Cardinality({k \in 1970 .. (y - 1) : MonthLength(k, 2) = 29})
    - Cardinality({k \in y .. 1969 : MonthLength(k, 2) = 29})
    + DaysOfMonthsBefore(y, m)

\* The range asked for is that of month m of year y.
IsRangeOfMonth(r, y, m) ==
    /\ r.startDate = [day |-> DaysUpTo(y, m), time |-> 0]
    /\ r.endDate = [day  |-> DaysUpTo(y, m) + MonthLength(y, m) - 1,
                    time |-> 24 * 60 * 60 * 1000 - 1]

\* C18 as stated: for every year and every month 1 .. 12,
\* getMonthDateRange(year, month) starts at 00:00:00.000 of day 1 of that
\* month of that year and ends at 23:59:59.999 of its last day.
C18_MonthDateRangeEveryYear ==
    output # Undefined =>
        IsRangeOfMonth(Value(output).value, Value(input).year, Value(input).month)

\* C18 amended: for every year outside 0 .. 99 and every month 1 .. 12 the
\* range starts at 00:00:00.000 of day 1 of the month and ends at
\* 23:59:59.999 of its last day (28 for February of a common year, 29 of a
\* leap year, 30 or 31 otherwise), February 2025 ending on day 28; for a
\* year from 0 to 99 it is the range of that month of year 1900 + year.
C18_MonthDateRange ==
    output # Undefined =>
        LET y == Value(input).year
            m == Value(input).month
            r == Value(output).value
        IN  /\ y \notin 0 .. 99 => IsRangeOfMonth(r, y, m)
            /\ y \in 0 .. 99 => IsRangeOfMonth(r, 1900 + y, m)
            /\ (y = 2025 /\ m = 2) => r.endDate.day - r.startDate.day = 27

\* The range of February 2024 has been returned: 29 days.
C18_Witness ==
    /\ output # Undefined
    /\ Value(input) = [year |-> 2024, month |-> 2]
    /\ Value(output).value.endDate.day - Value(output).value.startDate.day = 28

\* The calendar month of a date of the attendance clock's first 30 days,
\* day 0 being 30 January 2025.
CalendarMonth(date) ==
    IF date \div (24 * 60) <= 1
    THEN [year |-> 2025, month |-> 1]
    ELSE [year |-> 2025, month |-> 2]

RECURSIVE SumOfTotals(_)
SumOfTotals(ids) ==
    IF ids = {}
    THEN 0
    ELSE LET id == CHOOSE x \in ids : TRUE
         IN  SumOfTotals(ids \ {id})
             + (IF attendances[id].totalWorkHours = Undefined
                THEN 0
                ELSE attendances[id].totalWorkHours[1])

\* C16: getMonthlyAttendanceStats returns, over the employee's records of
\* the month, totalDays = their number, totalHours = the sum of the
\* totalWorkHours of those that have one, lateCount and earlyCount = the
\* numbers of records with that status, and averageHoursPerDay = totalHours
\* / totalDays to the nearest hundredth; all five are 0 over no record.
C16_MonthlyStats ==
    [][(output' # output /\ Value(output').op = "getMonthlyAttendanceStats") =>
          LET i == Value(input')
              r == Value(output').value
              R == {id \in DOMAIN attendances :
                      /\ attendances[id].userId = i.userId
                      /\ CalendarMonth(Att(id).date) = [year |-> i.year, month |-> i.month]}
              n == Cardinality(R)
          IN  /\ r.totalDays = n
              /\ r.totalHours = SumOfTotals(R)
              /\ r.lateCount = Cardinality({id \in R : attendances[id].status = "late"})
              /\ r.earlyCount = Cardinality({id \in R : attendances[id].status = "early"})
              /\ n > 0 => /\ 2 * (r.averageHoursPerDay * n - r.totalHours) <= n
                          /\ 2 * (r.totalHours - r.averageHoursPerDay * n) <= n
              /\ n = 0 => r = [totalDays |-> 0, totalHours |-> 0, lateCount |-> 0,
                                earlyCount |-> 0, averageHoursPerDay |-> 0]]_vars

\* The statistics of January have been returned for an employee with two
\* records in it, one clocked out and one not.
C16_Witness ==
    /\ output # Undefined
    /\ Value(output).op = "getMonthlyAttendanceStats"
    /\ Value(input).month = 1
    /\ Value(output).value.totalDays = 2
    /\ Value(output).value.totalHours > 0
    /\ \E id \in DOMAIN attendances :
          /\ attendances[id].userId = Value(input).userId
          /\ attendances[id].totalWorkHours = Undefined
          /\ CalendarMonth(Att(id).date).month = 1

\* C19: createShiftsInBatch is all-or-nothing.  No shift of a batch is in
\* the collection before its commit; the collection changes only when a
\* call returns; a call that returns ids has stored every shift of its
\* list, one new document per shift under ids that are distinct and in
\* list order, and nothing else has changed; a call whose commit fails
\* raises the failure and leaves the collection as it was.
C19_BatchAllOrNothing ==
    /\ [](\A k \in DOMAIN batch : batch[k].id \notin DOMAIN shifts)
    /\ [][shifts' # shifts => (input # Undefined /\ input' = Undefined)]_vars
    /\ [][(input # Undefined /\ input' = Undefined) =>
            LET list == Value(input)
                r    == Value(output').value.shiftIds
            IN  \/ /\ Value(output').value.thrown = "StoreFailure"
                   /\ shifts' = shifts
                \/ /\ Value(output').value.thrown = ""
                   /\ Len(r) = Len(list)
                   /\ \A j, k \in DOMAIN r : r[j] = r[k] => j = k
                   /\ \A k \in DOMAIN r :
                         /\ r[k] \notin DOMAIN shifts
                         /\ r[k] \in DOMAIN shifts'
                         /\ [shifts'[r[k]] EXCEPT !.date = convertTimestampToDate(@)]
                               = list[k]
                   /\ DOMAIN shifts' = DOMAIN shifts \cup {r[k] : k \in DOMAIN r}
                   /\ \A id \in DOMAIN shifts : shifts'[id] = shifts[id]]_vars

\* A batch of two shifts has been stored after an earlier batch of two was
\* rejected: the collection holds exactly the two shifts of the second.
C19_Witness ==
    /\ output # Undefined
    /\ Value(output).op = "createShiftsInBatch"
    /\ Value(output).value.shiftIds = <<3, 4>>
    /\ DOMAIN shifts = {3, 4}
    /\ shifts[3].userId # shifts[4].userId

\* C20: after any sequence of saveShiftPreference and createEmptyPreference
\* calls run one after another, the collection holds at most one shift
\* preference per (employee, year, month).
C20_OnePreferencePerMonth ==
    \A a, b \in DOMAIN shiftPreferences :
        ( /\ shiftPreferences[a].userId = shiftPreferences[b].userId
          /\ shiftPreferences[a].year = shiftPreferences[b].year
          /\ shiftPreferences[a].month = shiftPreferences[b].month ) => a = b

(* ------------------------------ C21 .. C30 ----------------------------- *)

C28_StaleStartBreak ==
    [][\A p \in Procs :
          (startBreakWrite(p) /\ ClockedOut(attendances[call[p].id])) =>
              LET old == Att(call[p].id)
                  new == AttNext(call[p].id)
              IN  /\ ~ClockedOut(Value(snap[p]))
                  /\ new.clockOutTime = old.clockOutTime
                  /\ new.totalWorkHours = old.totalWorkHours
                  /\ old.totalWorkHours =
                        Some(calculateTotalWorkHours(old.clockInTime,
                                                     Value(old.clockOutTime),
                                                     old.breakTimes))
                  /\ OpenBreaks(old) = {}
                  /\ OpenBreaks(new) = {Len(new.breakTimes)}
                  /\ new.breakTimes # old.breakTimes]_vars

\* A startBreak has written after the clock-out of its record: the record
\* has a clock-out time, a total and an open break.
C28_Witness ==
    /\ last.op = "startBreak"
    /\ last.result = "ok"
    /\ last.id \in DOMAIN attendances
    /\ ClockedOut(attendances[last.id])
    /\ attendances[last.id].totalWorkHours # Undefined
    /\ OpenBreaks(attendances[last.id]) # {}

\* C30: with the four handlers run one after another, a record has a
\* totalWorkHours value exactly when it has a clock-out time, a record with
\* a clock-out time has no open break, and a record without one has status
\* normal or late.
C30_RecordShape ==
    \A id \in DOMAIN attendances :
        LET a == attendances[id]
        IN  /\ (a.totalWorkHours # Undefined) <=> ClockedOut(a)
            /\ ClockedOut(a) => OpenBreaks(a) = {}
            /\ ~ClockedOut(a) => a.status \in {"normal", "late"}

\* One record was clocked out early while its break was open, and another
\* record, late, is still open with a break in progress.
C30_Witness ==
    \E i, j \in DOMAIN attendances :
        /\ ClockedOut(attendances[i])
        /\ attendances[i].status = "early"
        /\ Len(attendances[i].breakTimes) = 1
        /\ ~ClockedOut(attendances[j])
        /\ attendances[j].status = "late"
        /\ OpenBreaks(attendances[j]) # {}

DatesOf(preferenceId) ==
    [k \in DOMAIN shiftPreferences[preferenceId].unavailableDates |->
        convertTimestampToDate(shiftPreferences[preferenceId].unavailableDates[k])]

\* C21: the list of unavailable dates never holds two entries on one
\* calendar day; addUnavailableDate of a day that has an entry, at whatever
\* time of day, writes nothing; removeUnavailableDate leaves the entries of
\* the other days, in their order, and none of that day.
C21_OneEntryPerDay ==
    /\ [](\A id \in DOMAIN shiftPreferences :
             \A j, k \in DOMAIN DatesOf(id) :
                 DatesOf(id)[j] \div MinutesPerDay = DatesOf(id)[k] \div MinutesPerDay
                     => j = k)
    /\ [][\A id \in DOMAIN shiftPreferences, date \in {0, 540, 1440, 2340, 2880} :
             /\ ( /\ addUnavailableDate(id, date)
                  /\ \E k \in DOMAIN DatesOf(id) :
                        DatesOf(id)[k] \div MinutesPerDay = date \div MinutesPerDay )
                   => shiftPreferences' = shiftPreferences
             /\ removeUnavailableDate(id, date) =>
                   shiftPreferences'[id].unavailableDates =
                       SelectSeq(shiftPreferences[id].unavailableDates,
                                 LAMBDA t : convertTimestampToDate(t) \div MinutesPerDay
                                                # date \div MinutesPerDay)]_vars

\* Day 0 at 09:00 has been given to addUnavailableDate at the second
\* reading of the clock while the list held day 0 at 00:00 and day 1 at
\* 15:00: the list and the submission time are as they were.
C21_Witness ==
    /\ output = Some([op |-> "addUnavailableDate", value |-> "ok"])
    /\ input = Some([preferenceId |-> 1, date |-> 540])
    /\ DatesOf(1) = <<0, 2340>>
    /\ now = 2
    /\ shiftPreferences[1].submittedAt = convertDateToTimestamp(TimePoints[1])

\* The entries of a store for a day-category.
EntriesFor(storeId, day) ==
    {k \in DOMAIN stores[storeId].skillRequirements :
        stores[storeId].skillRequirements[k].day = day}

\* C22: a store created by createNewStore has at most one skill requirement
\* per day-category after any updateSkillRequirement and
\* removeSkillRequirement calls; updateSkillRequirement replaces the entry
\* of the requirement's day-category where it is, or appends the
\* requirement when the day-category has no entry, and leaves the other
\* entries; removeSkillRequirement for a day-category without an entry
\* writes nothing.
C22_OneRequirementPerDay ==
    /\ [](\A storeId \in DOMAIN stores :
             \A day \in {"weekday", "saturday", "sunday", "holiday"} :
                 Cardinality(EntriesFor(storeId, day)) <= 1)
    /\ [][\A storeId \in DOMAIN stores :
             \A day \in {"weekday", "saturday", "sunday", "holiday"} :
                 LET old == stores[storeId].skillRequirements
                     new == stores'[storeId].skillRequirements
                 IN  /\ ( /\ input' = Some([storeId |-> storeId, day |-> day])
                          /\ output' = Some([op |-> "updateSkillRequirement",
                                              value |-> "ok"]) ) =>
                           /\ Len(new) = IF EntriesFor(storeId, day) = {}
                                          THEN Len(old) + 1 ELSE Len(old)
                           /\ \A k \in DOMAIN old :
                                 IF k \in EntriesFor(storeId, day)
                                 THEN new[k].day = day /\ new[k].kitchen.A = 3
                                 ELSE new[k] = old[k]
                           /\ EntriesFor(storeId, day) = {} =>
                                   new[Len(new)].day = day /\ new[Len(new)].kitchen.A = 3
                     /\ ( /\ input' = Some([storeId |-> storeId, day |-> day])
                          /\ output' = Some([op |-> "removeSkillRequirement",
                                              value |-> "ok"])
                          /\ EntriesFor(storeId, day) = {} ) =>
                           stores' = stores]_vars

\* At the second reading of the clock removeSkillRequirement has been
\* called for a day-category that an earlier call had removed, and before
\* that the weekday requirement was replaced in place and the sunday one
\* removed and appended again: nothing was written by the last call.
C22_Witness ==
    /\ output = Some([op |-> "removeSkillRequirement", value |-> "ok"])
    /\ input = Some([storeId |-> 1, day |-> "saturday"])
    /\ now = 2
    /\ stores[1].updatedAt = convertDateToTimestamp(TimePoints[1])
    /\ Len(stores[1].skillRequirements) = 3
    /\ stores[1].skillRequirements[1].day = "weekday"
    /\ stores[1].skillRequirements[1].kitchen.A = 3
    /\ stores[1].skillRequirements[2].day = "holiday"
    /\ stores[1].skillRequirements[3].day = "sunday"

\* The result of the generator holds a list of assignments.
HasAssignments(run) ==
    /\ run.rejects = "none"
    /\ run.content.type = "object"
    /\ run.content.shifts.type = "array"

\* C23: generateShifts fails with InvalidGenerationResult and returns no
\* shift when the generator's result has no field shifts or one that is no
\* list; it fails and returns no shift when a load or the generator call
\* fails; it never writes to a collection.
C23_GenerateShiftsFails ==
    /\ [](output # Undefined =>
            LET run == Value(input)
                r    == Value(output).value
            IN  /\ ( /\ run.rejects = "none"
                     /\ run.content.type = "object"
                     /\ run.content.shifts.type # "array" ) =>
                       r.thrown = "InvalidGenerationResult" /\ r.shifts = <<>>
                /\ run.rejects # "none" =>
                       r.thrown = run.rejects /\ r.shifts = <<>>
                /\ r.thrown # "" => r.shifts = <<>>)
    /\ [][UNCHANGED <<attendances, shifts, batch, shiftPreferences, stores>>]_vars

\* The generator has returned an object whose field shifts is a string:
\* the call has failed.
C23_Witness ==
    /\ output # Undefined
    /\ Value(input).rejects = "none"
    /\ Value(input).content.type = "object"
    /\ Value(input).content.shifts.type = "string"
    /\ Value(output).value.thrown = "InvalidGenerationResult"

\* C24: when the generator returns a list of n assignments, generateShifts
\* returns n shifts in the order of the list, each with the employee, the
\* store, the date, the start time and the end time of its assignment,
\* status planned and an empty id, whoever the employee is, whatever the
\* times are and whether or not the employee is unavailable on the date.
C24_GenerateShiftsMaps ==
    (output # Undefined /\ HasAssignments(Value(input))) =>
        LET items == Value(input).content.shifts.items
            r     == Value(output).value
        IN  /\ r.thrown = ""
            /\ Len(r.shifts) = Len(items)
            /\ \A k \in DOMAIN items :
                  /\ r.shifts[k].userId = items[k].userId
                  /\ r.shifts[k].storeId = items[k].storeId
                  /\ r.shifts[k].startTime = items[k].startTime
                  /\ r.shifts[k].endTime = items[k].endTime
                  /\ r.shifts[k].status = "planned"
                  /\ r.shifts[k].id = ""
                  /\ DOMAIN r.shifts[k] =
                        {"id", "userId", "storeId", "date", "startTime", "endTime", "status"}
                  /\ items[k].date # <<>> =>
                        r.shifts[k].date =
                            Some([day  |-> DaysUpTo(items[k].date[1], items[k].date[2])
                                           + items[k].date[3] - 1,
                                  time |-> 0])

\* Two assignments have been returned as two shifts: the first of an
\* employee on a date the employee is unavailable, the second of an
\* employee that is not stored, ending before it starts.
C24_Witness ==
    /\ output # Undefined
    /\ HasAssignments(Value(input))
    /\ Value(input).unavailable = {<<"u1", <<2025, 2, 1>>>>}
    /\ Len(Value(output).value.shifts) = 2
    /\ Value(output).value.shifts[1].userId = "u1"
    /\ Value(input).content.shifts.items[1].date = <<2025, 2, 1>>
    /\ Value(output).value.shifts[2].userId = "u3"
    /\ Value(output).value.shifts[2].endTime = TimeString(8, 0)

C29_SubmittedUsersCount ==
    output # Undefined =>
        LET r == Value(output).value
        IN  /\ r.submittedUsers =
                  Cardinality({k \in DOMAIN r.userStatus : r.userStatus[k].submitted})
            /\ r.submittedUsers <= r.totalUsers

====
